---------------------------- MODULE Spec2Model ----------------------------
(***************************************************************************)
(* Request orchestration of strudel.scraper (stscraper/base.py, github.py, *)
(* gitlab.py, bitbucket.py): the credential pool scan (iterate_tokens),    *)
(* one HTTP attempt through a credential (APIToken.__call__ and            *)
(* _update_limits), the retry controller (VCSAPI._request) and the pagers  *)
(* (VCSAPI.request, GitHubAPIv4.v4) driven by a caller that pulls items.   *)
(*                                                                         *)
(* One logical call is modelled per behaviour.  The provider's answers,    *)
(* the order of random.sample and the caller's pulls are the               *)
(* nondeterministic inputs.                                                *)
(***************************************************************************)
EXTENDS Integers, Sequences, FiniteSets, TLC

(***************************************************************************)
(* Program constants                                                       *)
(***************************************************************************)
retries_on_timeout == 5

per_page == 100

\* Python's None in an integer-valued slot (limits, headers, cursor).
None == -1

Providers == {"github", "gitlab", "bitbucket"}

status_not_found_m1(p) == IF p = "github" THEN {404} ELSE {404, 422}
status_not_found(p) == IF p = "github" THEN {404, 451} ELSE {404, 422, 451}

status_empty == {409}

status_internal_error == {500, 502, 503}

status_too_many_requests(p) == IF p = "github" THEN {403} ELSE {}

\* The status on which the credential itself reports exhaustion.
exhausted_status(p) == IF p = "github" THEN 403 ELSE IF p = "gitlab" THEN 429 ELSE None

\* requests.Response.raise_for_status: raises HTTPError on 4xx and 5xx.
raise_for_status_m1(status) == status >= 500 /\ status < 600
raise_for_status_m2(status) == status >= 400 /\ status < 500
raise_for_status(status) == status >= 400 /\ status < 600

(***************************************************************************)
(* Bounds of the model                                                     *)
(***************************************************************************)
\* largest number of credentials in the pool
MaxTokens == 1
\* how far ahead of the clock a reported reset time lies
ResetAhead == 2
\* attempts answered "throttled, remaining 0" (TokenNotReady) per logical call
MaxNotReady == 1
\* retryable failures the provider produces during one paginated stream
MaxFaults == 1
\* pages of a paginated resource
MaxPages == 3
\* ordinary responses of one run that carry rate-limit headers
MaxHeaders == 1
\* distinct secrets a caller may pass to a constructor
MaxSecrets == 2
\* secrets in one `tokens` argument, repeats included
MaxArgLen == 2
\* constructor calls per behaviour
MaxConstructions == 2
\* items on a page of the small resources
MaxItems == 2
\* questions put to one credential, and seconds the clock advances
MaxAsked == 1
MaxClock == 2

\* The clock at the start of a behaviour (a unix timestamp, never 0).
StartTime == 10

\* Status codes the provider may answer with.
Statuses == {200, 401, 403, 404, 409, 422, 429, 451, 500, 502, 503, 504}


(***************************************************************************)
(* State                                                                   *)
(***************************************************************************)
VARIABLES
    provider,         \* the VCSAPI subclass of the client
    python,           \* major version of the interpreter (2 or 3)
    kind,             \* which logical call: "_request", "single", "paged", "v4"
    hdrs,             \* responses with rate-limit headers the provider may still send
    seen,             \* the token and the limit headers of the last response that carried some
    secrets,          \* token -> the secret it was created with (None: anonymous)
    made,             \* token objects created so far
    asked,            \* the last when()/ready() query and its answer
    built,            \* the constructor calls so far: their number, the last one's probes
    budget,           \* retryable failures the provider may still produce
    server,           \* the resource: its pages, [n |-> items, more |-> next-page signal]
    limits,           \* token -> its limit window [remaining, reset] of class 'core'
    search,           \* token -> its limit window of class 'search'
    frames,           \* the frames of calls that run at once on one client: position and locals
    quota,            \* token -> the window the provider keeps for it
    headers,          \* the secret under the authorization key: of the class's dictionary, of each token's own
    now,              \* time.time()
    pc,               \* position of the logical call
    scan,             \* iterate_tokens: tokens of the current sample not yet visited
    cur,              \* the token iterate_tokens yielded last
    timeout_counter,  \* _request's local counter
    log,              \* events of the current _request call, oldest first
    r,                \* the response _request ended with: [status, shape]
    result,           \* how the logical call ended ("none" while it has not)
    page,             \* params["page"] of request()
    cursor,           \* params["cursor"] of v4()
    idx,              \* items of the current page already yielded
    yielded,          \* items handed to the caller, in order
    calls,            \* the page (or cursor) parameter of every _request call of the stream
    sent,             \* HTTP requests sent during the logical call
    pulls             \* next() calls made by the caller

vars == <<provider, python, kind, hdrs, seen, secrets, made, asked, built, budget,
          server, limits, search, headers, frames, quota, now, pc, scan, cur, timeout_counter, log, r, result,
          page, cursor, idx, yielded, calls, sent, pulls>>

\* the provider, the interpreter, the resource and the membership of the pool
\* do not change during a call
env == <<provider, python, kind, server, secrets, made, asked, built, search,
         headers, frames, quota>>

pager == <<page, cursor, idx, yielded, calls, pulls>>

(***************************************************************************)
(* Credentials: APIToken.ready, GitHubAPIToken.when / GitLabAPIToken.when, *)
(* DummyAPIToken                                                           *)
(***************************************************************************)
Tokens == DOMAIN limits

\* a window nothing has been written to (APIToken.__init__), also used for
\* "the response carries no remaining-count header"
NoWindow == [remaining |-> None, reset |-> None]

\* the windows a header can report at clock value t
Windows(t) == {[remaining |-> 1, reset |-> t + ResetAhead],
               [remaining |-> 0, reset |-> t + ResetAhead],
               [remaining |-> 0, reset |-> t]}

\* no response with limit headers yet
NoSeen == [token |-> None, h |-> NoWindow]

\* a response with a remaining-count header uses up one of `hdrs`
sends(h) ==
    /\ hdrs' = IF h.remaining # None THEN hdrs - 1 ELSE hdrs
    /\ seen' = IF h.remaining # None THEN [token |-> cur, h |-> h] ELSE seen

\* the headers of an ordinary response: none, or a window while `hdrs` lasts
\* (DummyAPIToken reads no header at all)
Headers(t) == IF hdrs > 0 /\ provider # "bitbucket"
              THEN {NoWindow} \cup Windows(t)
              ELSE {NoWindow}

\* the headers of a response that reports the credential exhausted
ExhaustedHeaders(t) == {[remaining |-> 0, reset |-> t + ResetAhead]}

when_m1(t) ==
    IF provider = "bitbucket" THEN None
    ELSE IF limits[t].remaining # 0 \/ limits[t].reset <= now
         THEN 0 ELSE limits[t].reset

when(t) ==
    IF provider = "bitbucket" THEN None
    ELSE IF limits[t].remaining # 0 THEN 0 ELSE limits[t].reset

ready_m2(t) == TRUE

ready_m1(t) ==
    IF provider = "bitbucket" THEN TRUE
    ELSE when(t) = None \/ when(t) = 0 \/ when(t) < now

\* `not t or t <= time.time()`
ready(t) ==
    IF provider = "bitbucket" THEN TRUE
    ELSE when(t) = None \/ when(t) = 0 \/ when(t) <= now

Min(S) == CHOOSE x \in S : \A y \in S : x <= y

\* random.sample(self.tokens, len(self.tokens)): every order of the pool
Samples == {s \in [1..Cardinality(Tokens) -> Tokens] :
               \A i, j \in 1..Cardinality(Tokens) : i # j => s[i] # s[j]}

update_limits_m1(h) == limits

update_limits_m2(h) ==
    IF provider # "bitbucket" /\ h.remaining # None
    THEN [limits EXCEPT ![cur].remaining = h.remaining]
    ELSE limits

\* _update_limits: the window of the acting token after a response with header h
\* stores whatever the response carries, header or not
update_limits_m3(h) ==
    IF provider # "bitbucket"
    THEN [limits EXCEPT ![cur] = h]
    ELSE limits

update_limits(h) ==
    IF provider # "bitbucket" /\ h.remaining # None
    THEN [limits EXCEPT ![cur] = h]
    ELSE limits

\* _update_limits raises TokenNotReady
raises_not_ready(status, h) ==
    /\ provider # "bitbucket"
    /\ h.remaining = 0
    /\ status = exhausted_status(provider)

(***************************************************************************)
(* Retry controller: the arithmetic of VCSAPI._request                     *)
(***************************************************************************)
budget_exceeded_m1(counter) == counter >= retries_on_timeout
budget_exceeded(counter) == counter > retries_on_timeout

sleep_internal_error_m1(counter) == 2 ^ (counter + 1)
sleep_internal_error(counter) == 2 ^ counter

sleep_too_many_requests_m1(counter) == 2 ^ counter
\* 1 << (timeout_counter + 1)
sleep_too_many_requests(counter) == 2 ^ (counter + 1)

Event(what, value) == <<what, value>>

Count(what) == Cardinality({i \in 1..Len(log) : log[i][1] = what})

\* a counter kept by the stream instead of the call
BeginRequest_m1(param) ==
    /\ timeout_counter' = timeout_counter
    /\ log' = <<>>
    /\ scan' \in Samples
    /\ pc' = "scan"
    /\ calls' = Append(calls, param)

\* entering _request: timeout_counter = 0 and a fresh iterate_tokens generator
BeginRequest(param) ==
    /\ timeout_counter' = 0
    /\ log' = <<>>
    /\ scan' \in Samples
    /\ pc' = "scan"
    /\ calls' = Append(calls, param)

\* an exception leaves the logical call
Raise(what) ==
    /\ pc' = "done"
    /\ result' = what

(***************************************************************************)
(* Credential pool: VCSAPI.iterate_tokens                                  *)
(***************************************************************************)
\* for token in random.sample(...): if not token.ready(url): continue; yield token
ScanNext ==
    /\ pc = "scan"
    /\ scan # <<>>
    /\ scan' = Tail(scan)
    /\ IF ready(Head(scan))
       THEN pc' = "call" /\ cur' = Head(scan)
       ELSE pc' = pc /\ cur' = cur
    /\ UNCHANGED <<env, hdrs, seen, budget, limits, now, timeout_counter, log, r,
                   result, pager, sent>>

\* `sleep = next_res and int(next_res - time.time()) + 1`
pool_sleep(next_res) ==
    IF next_res = 0 THEN 0 ELSE next_res - now + 1

\* the sample is used up: next_res = min(when), sleep if sleep > 0, sample again
ScanEnd ==
    /\ pc = "scan"
    /\ scan = <<>>
    /\ IF Tokens = {}
       THEN \* min() of an empty sequence
            /\ Raise("ValueError")
            /\ UNCHANGED <<scan, now, log>>
       ELSE IF provider = "bitbucket"
       THEN \* next_res is None, and so is sleep: `None > 0`
            IF python = 3
            THEN /\ Raise("TypeError")
                 /\ UNCHANGED <<scan, now, log>>
            ELSE /\ scan' \in Samples
                 /\ UNCHANGED <<pc, result, now, log>>
       ELSE LET sleep == pool_sleep(Min({when(t) : t \in Tokens}))
            IN  /\ scan' \in Samples
                /\ UNCHANGED <<pc, result>>
                /\ IF sleep > 0
                   THEN /\ now' = now + sleep
                        /\ log' = Append(log, Event("poolsleep", sleep))
                   ELSE UNCHANGED <<now, log>>
    /\ UNCHANGED <<env, hdrs, seen, budget, limits, cur, timeout_counter, r, pager,
                   sent>>

(***************************************************************************)
(* One attempt: APIToken.__call__ and the body of _request's loop          *)
(***************************************************************************)
\* what the body of a response decodes to; for v4: an object with pageInfo
\* and nodes, an object without pageInfo, 'errors', a path that does not
\* exist (a key is missing, or the value on the way is null, a list or a
\* string), a path that runs into a number, pageInfo without nodes or edges
Shapes == IF kind = "v4"
          THEN {"nodes", "single", "errors", "nopath", "number", "nonodes"}
          ELSE {"json"}

\* one error for every kind of failure
CountedFailure_m1(what, error, delay) ==
    /\ budget > 0
    /\ budget' = budget - 1
    /\ timeout_counter' = timeout_counter + 1
    /\ IF budget_exceeded(timeout_counter + 1)
       THEN /\ Raise("Timeout: VCS is down")
            /\ log' = Append(log, Event(what, 0))
            /\ now' = now
       ELSE /\ pc' = "scan"
            /\ result' = result
            /\ now' = now + delay
            /\ log' = IF delay > 0
                      THEN log \o <<Event(what, 0), Event("sleep", delay)>>
                      ELSE Append(log, Event(what, 0))

\* a counted failure: either the budget is used up, or _request goes on
\* with the next token after sleeping `delay` seconds (0: no sleep)
CountedFailure(what, error, delay) ==
    /\ budget > 0
    /\ budget' = budget - 1
    /\ timeout_counter' = timeout_counter + 1
    /\ IF budget_exceeded(timeout_counter + 1)
       THEN /\ Raise(error)
            /\ log' = Append(log, Event(what, 0))
            /\ now' = now
       ELSE /\ pc' = "scan"
            /\ result' = result
            /\ now' = now + delay
            /\ log' = IF delay > 0
                      THEN log \o <<Event(what, 0), Event("sleep", delay)>>
                      ELSE Append(log, Event(what, 0))

\* session.request raises requests.exceptions.RequestException
AttemptNetworkFailure ==
    /\ pc = "call"
    /\ sent' = sent + 1
    /\ CountedFailure("neterr", "RequestException", 0)
    /\ UNCHANGED <<env, hdrs, seen, limits, scan, cur, r, pager>>

\* _update_limits raises TokenNotReady: `continue` with the next token
AttemptTokenNotReady ==
    /\ pc = "call"
    /\ budget > 0
    /\ Count("notready") < MaxNotReady
    /\ \E s \in Statuses, h \in ExhaustedHeaders(now) :
          /\ raises_not_ready(s, h)
          /\ limits' = update_limits(h)
          /\ seen' = [token |-> cur, h |-> h]
    /\ sent' = sent + 1
    /\ budget' = budget - 1
    /\ log' = Append(log, Event("notready", 0))
    /\ pc' = "scan"
    /\ UNCHANGED <<env, hdrs, now, scan, cur, timeout_counter, r, result,
                   pager>>

AttemptNotFound ==
    /\ pc = "call"
    /\ \E s \in Statuses, h \in Headers(now) :
          /\ ~raises_not_ready(s, h)
          /\ s \in status_not_found(provider)
          /\ limits' = update_limits(h)
          /\ sends(h)
          /\ r' = [status |-> s, shape |-> "json"]
    /\ sent' = sent + 1
    /\ log' = Append(log, Event("notfound", 0))
    /\ Raise("RepoDoesNotExist")
    /\ UNCHANGED <<env, budget, now, scan, cur, timeout_counter, pager>>

AttemptInternalError ==
    /\ pc = "call"
    /\ \E s \in Statuses, h \in Headers(now) :
          /\ ~raises_not_ready(s, h)
          /\ s \notin status_not_found(provider)
          /\ s \in status_internal_error
          /\ limits' = update_limits(h)
          /\ sends(h)
    /\ sent' = sent + 1
    /\ CountedFailure("srv", "Timeout: VCS is down",
                      sleep_internal_error(timeout_counter + 1))
    /\ UNCHANGED <<env, scan, cur, r, pager>>

AttemptTooManyRequests ==
    /\ pc = "call"
    /\ \E s \in Statuses, h \in Headers(now) :
          /\ ~raises_not_ready(s, h)
          /\ s \notin status_not_found(provider)
          /\ s \notin status_internal_error
          /\ s \in status_too_many_requests(provider)
          /\ limits' = update_limits(h)
          /\ sends(h)
    /\ sent' = sent + 1
    /\ CountedFailure("tmr", "Timeout: Too many requests",
                      sleep_too_many_requests(timeout_counter + 1))
    /\ UNCHANGED <<env, scan, cur, r, pager>>

\* r.raise_for_status(); return r
AttemptOther ==
    /\ pc = "call"
    /\ \E s \in Statuses, h \in Headers(now), sh \in Shapes :
          /\ ~raises_not_ready(s, h)
          /\ s \notin status_not_found(provider)
          /\ s \notin status_internal_error
          /\ s \notin status_too_many_requests(provider)
          /\ limits' = update_limits(h)
          /\ sends(h)
          /\ r' = [status |-> s, shape |-> IF raise_for_status(s) THEN "json" ELSE sh]
          /\ IF raise_for_status(s)
             THEN /\ Raise("HTTPError")
                  /\ log' = Append(log, Event("httperr", 0))
             ELSE /\ log' = Append(log, Event("ok", 0))
                  /\ IF kind = "_request"
                     THEN pc' = "done" /\ result' = "ok"
                     ELSE pc' = "returned" /\ result' = result
    /\ sent' = sent + 1
    /\ UNCHANGED <<env, budget, now, scan, cur, timeout_counter, pager>>

Attempt ==
    \/ AttemptNetworkFailure
    \/ AttemptTokenNotReady
    \/ AttemptNotFound
    \/ AttemptInternalError
    \/ AttemptTooManyRequests
    \/ AttemptOther

(***************************************************************************)
(* A direct call of VCSAPI._request                                        *)
(***************************************************************************)
CallRequest ==
    /\ pc = "created"
    /\ kind = "_request"
    /\ BeginRequest(<<None, None>>)
    /\ UNCHANGED <<env, hdrs, seen, budget, limits, now, cur, r, result, page,
                   cursor, idx, yielded, sent, pulls>>

(***************************************************************************)
(* The resource behind a paginated endpoint                                *)
(***************************************************************************)
EmptyPage == [n |-> 0, more |-> FALSE]

\* what the provider holds at page p
PageAt(p) == IF p \in 1..Len(server) THEN server[p] ELSE EmptyPage

\* GraphQL cursors are opaque: the one that ends page p, and the page a
\* cursor leads to
EndCursorOf(p) == 40 - p
PageForCursor(c) == IF c = None THEN 1 ELSE (40 - c) + 1

\* the page the current response carries
CurPage == IF kind = "v4" THEN PageForCursor(cursor)
           ELSE IF page = None THEN 1 ELSE page

Res == PageAt(CurPage)

\* the rel values of the response's Link header (GitHub): next and last
\* while there is a next page, prev and first after the first page
Link == (IF Res.more THEN <<"next", "last">> ELSE <<>>) \o
        (IF CurPage > 1 THEN <<"prev", "first">> ELSE <<>>)

\* the X-Page and X-Total-Pages headers of the response (GitLab)
XPage == CurPage
XTotalPages == IF Res.more THEN CurPage + 1 ELSE CurPage

(***************************************************************************)
(* Pagers: VCSAPI.request and GitHubAPIv4.v4                               *)
(***************************************************************************)
\* init_pagination(): {'page': 1, 'per_page': 100} (Bitbucket: 'pagelen')
init_pagination == [page |-> 1, per_page |-> per_page]

\* GitHubAPI._has_next_page: some link of the header is rel="next"
\* (VCSAPI._has_next_page raises NotImplementedError; GitLabAPI and
\* BitbucketAPI define has_next_page, which request() never calls)
github_has_next_page_m1(link) == \E i \in 1..Len(link) : link[i] \in {"next", "prev"}
github_has_next_page(link) == \E i \in 1..Len(link) : link[i] = "next"

\* GitLabAPI.has_next_page
gitlab_has_next_page(xpage, xtotal) == xpage # None /\ xpage < xtotal

has_next_page_defined == provider = "github"

\* v4: params['cursor'] = json_path(page_info, ('endCursor',))
next_cursor_m1(c, p) == c
next_cursor(c, p) == EndCursorOf(p)

\* `for item in res`: the loop over the items of a page is over
page_exhausted_m1(i, n) == i + 1 >= n
page_exhausted(i, n) == i >= n

\* the generator hands an item to the caller and is suspended there
Yield(item, i) ==
    /\ yielded' = Append(yielded, item)
    /\ idx' = i
    /\ pc' = "yielded"
    /\ result' = result

\* the generator returns: StopIteration at the caller
Return ==
    /\ pc' = "done"
    /\ result' = "ok"

\* the caller's first next(): the generator body runs up to its first _request
PullFirst ==
    /\ pc = "created"
    /\ kind # "_request"
    /\ pulls' = pulls + 1
    /\ IF kind = "paged"
       THEN /\ page' = init_pagination.page
            /\ BeginRequest(<<init_pagination.page, init_pagination.per_page>>)
       ELSE /\ page' = page
            /\ BeginRequest(<<IF kind = "v4" THEN cursor ELSE page, None>>)
    /\ UNCHANGED <<env, hdrs, seen, budget, limits, now, cur, r, result, cursor, idx,
                   yielded, sent>>

\* request(): the code after `r = self._request(...)` up to the next yield
ReturnedToRequest ==
    /\ pc = "returned"
    /\ kind \in {"single", "paged"}
    /\ IF r.status \in status_empty
       THEN Return /\ UNCHANGED <<yielded, idx>>
       ELSE IF provider = "bitbucket"
       THEN \* BitbucketAPI.extract_result(response, paginate) called with one argument
            Raise("TypeError") /\ UNCHANGED <<yielded, idx>>
       ELSE IF kind = "single"
       THEN Yield(<<CurPage, 0>>, 1)
       ELSE IF Res.n > 0
       THEN Yield(<<CurPage, 1>>, 1)
       ELSE \* `not res`
            Return /\ UNCHANGED <<yielded, idx>>
    /\ UNCHANGED <<env, hdrs, seen, budget, limits, now, scan, cur, timeout_counter,
                   log, r, page, cursor, calls, sent, pulls>>

\* v4(): the code after `r = self._request(...)` up to the next yield
ReturnedToV4 ==
    /\ pc = "returned"
    /\ kind = "v4"
    /\ IF r.status \in status_empty
       THEN Return /\ UNCHANGED <<yielded, idx, cursor, timeout_counter, log, scan, calls>>
       ELSE IF r.shape \in {"errors", "nopath"}
       THEN Raise("VCSError") /\ UNCHANGED <<yielded, idx, cursor, timeout_counter, log, scan, calls>>
       ELSE IF r.shape = "number"
       \* json_path: `chunk not in obj` with obj a number
       THEN Raise("TypeError") /\ UNCHANGED <<yielded, idx, cursor, timeout_counter, log, scan, calls>>
       ELSE IF r.shape = "single"
       THEN Yield(<<CurPage, 0>>, 1) /\ UNCHANGED <<cursor, timeout_counter, log, scan, calls>>
       ELSE IF r.shape = "nonodes"
       THEN Raise("EnvironmentError") /\ UNCHANGED <<yielded, idx, cursor, timeout_counter, log, scan, calls>>
       ELSE IF Res.n > 0
       THEN Yield(<<CurPage, 1>>, 1) /\ UNCHANGED <<cursor, timeout_counter, log, scan, calls>>
       ELSE IF ~Res.more
       THEN Return /\ UNCHANGED <<yielded, idx, cursor, timeout_counter, log, scan, calls>>
       ELSE /\ cursor' = next_cursor(cursor, CurPage)
            /\ BeginRequest(<<next_cursor(cursor, CurPage), None>>)
            /\ UNCHANGED <<yielded, idx, result>>
    /\ UNCHANGED <<env, hdrs, seen, budget, limits, now, cur, r, page, sent, pulls>>

\* a later next(): the generator resumes after its yield
PullNext ==
    /\ pc = "yielded"
    /\ pulls' = pulls + 1
    /\ IF kind = "single" \/ r.shape = "single"
       THEN Return /\ UNCHANGED <<yielded, idx, page, cursor, timeout_counter, log, scan, calls>>
       ELSE IF ~page_exhausted(idx, Res.n)
       THEN Yield(<<CurPage, idx + 1>>, idx + 1)
            /\ UNCHANGED <<page, cursor, timeout_counter, log, scan, calls>>
       ELSE IF kind = "paged"
       THEN IF ~has_next_page_defined
            THEN Raise("NotImplementedError")
                 /\ UNCHANGED <<yielded, idx, page, cursor, timeout_counter, log, scan, calls>>
            ELSE IF ~github_has_next_page(Link)
            THEN Return /\ UNCHANGED <<yielded, idx, page, cursor, timeout_counter, log, scan, calls>>
            ELSE /\ page' = page + 1
                 /\ BeginRequest(<<page + 1, init_pagination.per_page>>)
                 /\ UNCHANGED <<yielded, idx, cursor, result>>
       ELSE IF ~Res.more
       THEN Return /\ UNCHANGED <<yielded, idx, page, cursor, timeout_counter, log, scan, calls>>
       ELSE /\ cursor' = next_cursor(cursor, CurPage)
            /\ BeginRequest(<<next_cursor(cursor, CurPage), None>>)
            /\ UNCHANGED <<yielded, idx, page, result>>
    /\ UNCHANGED <<env, hdrs, seen, budget, limits, now, cur, r, sent>>

\* the caller stops pulling
Abandon ==
    /\ pc \in {"created", "yielded"}
    /\ kind # "_request"
    /\ pc' = "abandoned"
    /\ UNCHANGED <<env, hdrs, seen, budget, limits, now, scan, cur, timeout_counter,
                   log, r, result, pager, sent>>

(***************************************************************************)
(* Construction: VCSAPI.__new__ and __init__, the validity probe           *)
(***************************************************************************)
Secrets == 1..MaxSecrets

\* the `tokens` argument: a collection or a comma-separated string of
\* secrets, possibly with repeats; empty: no tokens given
TokenArgs == UNION {[1..n -> Secrets] : n \in 0..MaxArgLen}

NoBuilt == [count |-> 0, arg |-> <<>>, probes |-> <<>>, error |-> "none"]

\* APIToken.__str__: `self.token or ""` (0 stands for the empty string)
str(secret) == IF secret = None THEN 0 ELSE secret

\* the subclass constructors: GitHubAPI and GitLabAPI fall back to [None]
\* when no token is given or configured, BitbucketAPI always passes [None]
given_tokens(arg) ==
    IF provider = "bitbucket" \/ arg = <<>> THEN <<None>> ELSE arg

new_secrets_m1(tokens, known) == {tokens[i] : i \in DOMAIN tokens}
\* `set(tokens) - old_tokens`, old_tokens = {str(token) for token in self.tokens}
new_secrets(tokens, known) ==
    {tokens[i] : i \in DOMAIN tokens} \ {str(known[i]) : i \in DOMAIN known}

\* how the probe of a new token ends.  GitHubAPIToken.user requests 'user':
\* an answer with a login, the same as the last request of the window
\* (remaining 0), an answer without a login (401 bad credentials: the JSON
\* has no 'login', the user is ''), 403 with remaining 0 (TokenNotReady), or
\* a network failure.  DummyAPIToken.is_valid is True.  GitLabAPIToken has
\* no is_valid: APIToken.is_valid raises NotImplementedError.
ProbeOutcomes ==
    IF provider = "github"
    THEN {"login", "last", "rejected", "exhausted", "neterr"}
    ELSE IF provider = "bitbucket" THEN {"dummy"} ELSE {"notimplemented"}

\* GitHubAPIToken.is_valid: `self.user is not None`
is_valid(outcome) == outcome \in {"login", "last", "rejected", "dummy"}

\* the probe raises something else than TokenNotReady
probe_error(outcome) ==
    IF outcome = "neterr" THEN "RequestException"
    ELSE IF outcome = "notimplemented" THEN "NotImplementedError"
    ELSE "none"

\* the window the probe's response leaves in the new token
probe_window(outcome, t) ==
    IF outcome \in {"last", "exhausted"}
    THEN [remaining |-> 0, reset |-> t + ResetAhead]
    ELSE NoWindow

\* the elements of a set of integers, ascending (the iteration order of a
\* Python set is arbitrary and the pool is only ever read through
\* random.sample)
RECURSIVE Sorted(_)
Sorted(S) == IF S = {} THEN <<>> ELSE <<Min(S)>> \o Sorted(S \ {Min(S)})

\* a constructor that replaced the pool instead of merging into it
init_run_m1(p, tokens, o) ==
    LET new == Sorted(new_secrets(tokens, p.secrets))
        valid(sec) == is_valid(o[sec])
        kept == SelectSeq(new, valid)
    IN  [secrets |-> kept,
         limits |-> [i \in 1..Len(kept) |-> probe_window(o[kept[i]], now)],
         made |-> p.made + Len(new),
         probes |-> o,
         error |-> "none"]

\* one run of VCSAPI.__init__ on pool p with the probe outcomes o; p.probes
\* keeps the outcome of the last probe of every secret
init_run(p, tokens, o) ==
    LET new == Sorted(new_secrets(tokens, p.secrets))
        valid(sec) == is_valid(o[sec])
        kept == SelectSeq(new, valid)
        errors == {probe_error(o[new[i]]) : i \in DOMAIN new} \ {"none"}
        probes == [sec \in DOMAIN p.probes \cup DOMAIN o |->
                      IF sec \in DOMAIN o THEN o[sec] ELSE p.probes[sec]]
    IN  IF errors # {}
        THEN [p EXCEPT !.made = p.made + Len(new),
                       !.probes = probes,
                       !.error = CHOOSE e \in errors : TRUE]
        ELSE [secrets |-> p.secrets \o kept,
              limits |-> p.limits \o
                         [i \in 1..Len(kept) |-> probe_window(o[kept[i]], now)],
              made |-> p.made + Len(new),
              probes |-> probes,
              error |-> "none"]

\* the pools one run of __init__ can leave
init_runs(p, tokens) ==
    {init_run(p, tokens, o) :
        o \in [new_secrets(tokens, p.secrets) -> ProbeOutcomes]}

\* the request headers of the tokens created, in this order, with the secrets
\* ss.  GitHubAPIToken.__init__ gives every token a dictionary of its own
\* and stores 'token ' + secret under 'Authorization'; GitLabAPIToken.__init__
\* stores the secret under 'Private-Token' in self._headers, which is the
\* dictionary of the class; DummyAPIToken stores nothing
pool_headers(ss) ==
    LET given == {i \in DOMAIN ss : ss[i] # None}
        last == CHOOSE i \in given : \A j \in given : j <= i
    IN  [class |-> IF provider = "gitlab" /\ given # {} THEN ss[last] ELSE None,
         own |-> [i \in DOMAIN ss |->
                    IF provider = "github" THEN ss[i] ELSE None]]

\* cls(tokens): __new__ runs __init__ on the instance of the class, and the
\* interpreter then runs __init__ again on the instance __new__ returned
Construct ==
    /\ pc \in {"created", "done"}
    /\ kind = "_request"
    /\ built.count < MaxConstructions
    /\ \E arg \in TokenArgs :
          \E p1 \in init_runs([secrets |-> secrets, limits |-> limits,
                               made |-> made, probes |-> <<>>,
                               error |-> "none"], given_tokens(arg)) :
             \E p2 \in IF p1.error # "none" THEN {p1}
                       ELSE init_runs(p1, given_tokens(arg)) :
                /\ secrets' = p2.secrets
                /\ limits' = p2.limits
                /\ search' = [i \in DOMAIN p2.limits |->
                                 IF i \in DOMAIN search THEN search[i]
                                 ELSE NoWindow]
                /\ made' = p2.made
                \* the token objects are created in the iteration order of
                \* a set: any of the new secrets can be the last one written
                /\ LET created == new_secrets(given_tokens(arg), secrets)
                                      \ {None}
                   IN  \E c \in IF provider = "gitlab" /\ created # {}
                                THEN created ELSE {headers.class} :
                          headers' = [class |-> c,
                                      own |-> pool_headers(p2.secrets).own]
                /\ built' = [count |-> built.count + 1,
                             arg |-> arg,
                             probes |-> p2.probes,
                             error |-> p2.error]
    \* the next logical call starts afresh
    /\ pc' = "created"
    /\ scan' = <<>>
    /\ cur' = None
    /\ timeout_counter' = 0
    /\ log' = <<>>
    /\ r' = [status |-> None, shape |-> "json"]
    /\ result' = "none"
    /\ sent' = 0
    /\ UNCHANGED <<provider, python, kind, server, asked, hdrs, seen, budget,
                   now, pager, frames, quota>>

(***************************************************************************)
(* Initial states                                                          *)
(***************************************************************************)
\* the windows a token may hold when the call starts: untouched, or what an
\* earlier response (the validity probe, an earlier call) left
InitialWindows == {NoWindow,
                   [remaining |-> 0, reset |-> StartTime + ResetAhead],
                   [remaining |-> 0, reset |-> StartTime]}

InitPool ==
    /\ provider \in Providers
    /\ python \in IF provider = "bitbucket" THEN {2, 3} ELSE {3}
    /\ now = StartTime
    /\ \E n \in 0..MaxTokens :
          /\ limits \in IF provider = "bitbucket"
                        THEN [1..n -> {NoWindow}]
                        ELSE [1..n -> InitialWindows]
          \* the sample order is random, so the pool is listed in one order
          /\ \A i \in 1..(n - 1) :
                 /\ limits[i].remaining <= limits[i + 1].remaining
                 /\ limits[i].reset <= limits[i + 1].reset
          /\ secrets = [i \in 1..n |-> IF provider = "bitbucket" THEN None ELSE i]
          /\ search = [i \in 1..n |-> NoWindow]
          /\ made = n
          /\ headers = pool_headers(secrets)
          /\ frames = <<>>
          /\ quota = <<>>

InitCall ==
    /\ pc = "created"
    /\ scan = <<>>
    /\ cur = None
    /\ timeout_counter = 0
    /\ log = <<>>
    /\ r = [status |-> None, shape |-> "json"]
    /\ result = "none"
    /\ idx = 0
    /\ yielded = <<>>
    /\ calls = <<>>
    /\ sent = 0
    /\ pulls = 0
    /\ seen = NoSeen
    /\ asked = <<>>
    /\ built = NoBuilt

InitRetry ==
    /\ kind = "_request"
    /\ hdrs = 0
    /\ budget = retries_on_timeout + 1 + MaxNotReady
    /\ server = <<>>
    /\ page = None
    /\ cursor = None
    /\ InitPool
    /\ InitCall

NextRetry ==
    \/ CallRequest
    \/ ScanNext
    \/ ScanEnd
    \/ Attempt

SpecRetry == InitRetry /\ [][NextRetry]_vars

\* the caller may have put its own page or cursor among the parameters
CallerPages == {None, 2}

\* the 37 items of the last page of the 100/100/37 resource
ShortPage == 37

\* the resources: up to MaxPages pages of up to MaxItems items; every page
\* but the last announces a next page (the pages after one that does not are
\* never asked for), the last one may announce one that turns out empty
Resources ==
    UNION {{s \in [1..k -> [n : 0..MaxItems, more : BOOLEAN]] :
               \A i \in 1..(k - 1) : s[i].more} : k \in 1..MaxPages}

InitStream ==
    /\ python = 3
    /\ now = StartTime
    /\ hdrs = 0
    /\ budget = MaxFaults
    \* the client of the tests: no token given, one anonymous credential
    /\ limits = <<NoWindow>>
    /\ search = <<NoWindow>>
    /\ secrets = <<None>>
    /\ made = 1
    /\ InitCall
    /\ headers = pool_headers(secrets)
    /\ frames = <<>>
    /\ quota = <<>>

\* VCSAPI.request, with and without pagination
InitPager ==
    /\ kind \in {"single", "paged"}
    /\ provider \in Providers
    /\ server \in IF kind = "single"
                  THEN {<<[n |-> 1, more |-> FALSE]>>}
                  ELSE Resources
    /\ page \in CallerPages
    /\ cursor = None
    /\ InitStream

NextPager ==
    \/ PullFirst
    \/ PullNext
    \/ Abandon
    \/ ScanNext
    \/ ScanEnd
    \/ Attempt
    \/ ReturnedToRequest

SpecPager == InitPager /\ [][NextPager]_vars

\* GitHubAPIv4.v4
InitV4 ==
    /\ kind = "v4"
    /\ provider = "github"
    /\ server \in Resources
    /\ page = None
    /\ cursor = None
    /\ InitStream

NextV4 ==
    \/ PullFirst
    \/ PullNext
    \/ Abandon
    \/ ScanNext
    \/ ScanEnd
    \/ Attempt
    \/ ReturnedToV4

SpecV4 == InitV4 /\ [][NextV4]_vars

\* GitHubAPI.request(paginate=True) over pages of 100, 100 and 37 items; the
\* short page may or may not announce a next page, which is empty
InitOffset ==
    /\ kind = "paged"
    /\ provider = "github"
    /\ server \in {<<[n |-> per_page, more |-> TRUE],
                     [n |-> per_page, more |-> TRUE],
                     [n |-> ShortPage, more |-> m]>> : m \in BOOLEAN}
    /\ page = None
    /\ cursor = None
    /\ InitStream

SpecOffset == InitOffset /\ [][NextPager]_vars

(***************************************************************************)
(* Properties of the retry controller (SpecRetry)                          *)
(***************************************************************************)
IsAttempt(e) == e[1] \notin {"sleep", "poolsleep"}

\* the attempts of the call, oldest first, without the sleeps between them
Attempts == SelectSeq(log, IsAttempt)

IsBackoff(e) == e[1] = "sleep"

\* the sleeps _request itself performed, oldest first
Backoff == SelectSeq(log, IsBackoff)

\* the value of the counter after the event at position i of the log
CountedUpTo(i) ==
    Cardinality({j \in 1..i : log[j][1] \in {"neterr", "srv", "tmr"}})

PowersOfTwo(k) == [i \in 1..k |-> Event("sleep", 2 ^ i)]

BudgetErrors ==
    {"RequestException", "Timeout: VCS is down", "Timeout: Too many requests"}

\* C1: a response whose status is classified not-found (404 and 451; also
\* 422 for GitLab and Bitbucket) makes _request raise RepoDoesNotExist at
\* once, whatever retryable failures came before: the not-found response is
\* the last event of the call, no request and no sleep follows it.
NotFoundStatuses ==
    IF provider = "github" THEN {404, 451} ELSE {404, 422, 451}

C1_NotFoundFailsAtOnce ==
    /\ \A i \in 1..Len(log) :
          log[i][1] = "notfound" =>
             /\ i = Len(log)
             /\ pc = "done"
             /\ result = "RepoDoesNotExist"
    /\ r.status \in NotFoundStatuses =>
          /\ log # <<>>
          /\ log[Len(log)][1] = "notfound"
          /\ pc = "done"
          /\ result = "RepoDoesNotExist"
          /\ sent = Len(Attempts)

\* five retryable failures with their sleeps, then 422 from GitLab
C1_Witness ==
    /\ result = "RepoDoesNotExist"
    /\ r.status = 422
    /\ timeout_counter = retries_on_timeout
    /\ Len(Backoff) >= 2

\* C3: k consecutive server errors (500, 502, 503), 1 <= k <= 5, followed by
\* a success: the call succeeds after exactly k + 1 attempts and its backoff
\* sleeps are 2^1, ..., 2^k in this order; server errors that persist past
\* the bound end the call with the 'VCS is down' timeout.
C3_ServerErrorBackoff ==
    LET a == Attempts
        n == Len(a)
        srvOnly(m) == \A i \in 1..m : a[i][1] = "srv"
    IN  /\ (n >= 2 /\ a[n][1] = "ok" /\ srvOnly(n - 1)) =>
              /\ n - 1 <= retries_on_timeout
              /\ pc = "done"
              /\ result = "ok"
              /\ sent = n
              /\ Backoff = PowersOfTwo(n - 1)
        /\ (n > retries_on_timeout /\ srvOnly(n)) =>
              /\ n = retries_on_timeout + 1
              /\ pc = "done"
              /\ result = "Timeout: VCS is down"
              /\ Backoff = PowersOfTwo(retries_on_timeout)
        /\ result = "Timeout: VCS is down" => a[n][1] = "srv"

\* k = 3: four attempts, sleeps of 2, 4 and 8 seconds
C3_Witness ==
    /\ pc = "done"
    /\ result = "ok"
    /\ sent = 4
    /\ Count("srv") = 3
    /\ Backoff = <<Event("sleep", 2), Event("sleep", 4), Event("sleep", 8)>>

\* C4: where a status is classified as throttling, the failure that sets
\* timeout_counter to i is followed by a sleep of 2^(i+1) seconds before the
\* next attempt, twice the 2^i of a server error; the failure that exceeds
\* the budget ends the call with the 'Too many requests' timeout, which is
\* not the 'VCS is down' one.
C4_ThrottleBackoff ==
    /\ \A i \in 1..Len(log) :
          log[i][1] = "tmr" =>
             IF CountedUpTo(i) > retries_on_timeout
             THEN /\ i = Len(log)
                  /\ pc = "done"
                  /\ result = "Timeout: Too many requests"
             ELSE /\ i < Len(log)
                  /\ log[i + 1] = Event("sleep", 2 ^ (CountedUpTo(i) + 1))
                  /\ log[i + 1][2] = 2 * (2 ^ CountedUpTo(i))
    /\ result = "Timeout: Too many requests" => log[Len(log)][1] = "tmr"
    /\ result = "Timeout: VCS is down" => log[Len(log)][1] # "tmr"

\* the third counted failure is a throttling response: 16 seconds
C4_Witness ==
    \E i \in 1..(Len(log) - 1) :
       /\ log[i][1] = "tmr"
       /\ CountedUpTo(i) = 3
       /\ log[i + 1] = Event("sleep", 16)
       /\ Count("srv") >= 1

\* C5 as stated, the part about network failures: a network-level failure
\* is retried with no sleep at all, the next event of the call is the next
\* attempt.
C5_NetworkRetryWithoutAnySleep ==
    \A i \in 1..(Len(log) - 1) :
       log[i][1] = "neterr" => IsAttempt(log[i + 1])

\* C5: one timeout_counter per _request call counts network failures, server
\* errors and throttling responses alike and never decreases; the call fails
\* exactly on the failure that makes it exceed retries_on_timeout (at most 5
\* retries after counted failures, 6 counted attempts), with no sleep
\* before that final failure; after a network failure _request itself does
\* not sleep (only the scan of an exhausted pool may).
C5_Counter ==
    /\ timeout_counter = CountedUpTo(Len(log))
    /\ timeout_counter <= retries_on_timeout + 1
    /\ result \in BudgetErrors <=> timeout_counter = retries_on_timeout + 1
    /\ result \in BudgetErrors =>
          /\ pc = "done"
          /\ log[Len(log)][1] \in {"neterr", "srv", "tmr"}
          /\ Len(Backoff) <= retries_on_timeout
    /\ result = "RequestException" => log[Len(log)][1] = "neterr"
    /\ \A i \in 1..(Len(log) - 1) :
          log[i][1] = "neterr" => ~IsBackoff(log[i + 1])

C5_SharedTimeoutCounter ==
    []C5_Counter /\ [][timeout_counter' >= timeout_counter]_vars

\* the sixth counted failure, a network one, after failures of the other kinds
C5_Witness ==
    /\ result = "RequestException"
    /\ timeout_counter = retries_on_timeout + 1
    /\ Count("srv") >= 1
    /\ Count("tmr") >= 1
    /\ Count("neterr") >= 2

(***************************************************************************)
(* Properties of the pagers (SpecPager, SpecV4, SpecOffset)                *)
(***************************************************************************)
\* the items of page p, and of pages a..b, in the provider's order
ItemsOf(p) == [i \in 1..PageAt(p).n |-> <<p, i>>]

RECURSIVE ItemsFrom(_, _)
ItemsFrom(a, b) == IF a > b THEN <<>> ELSE ItemsOf(a) \o ItemsFrom(a + 1, b)

IsPrefix(s, t) == Len(s) <= Len(t) /\ \A i \in 1..Len(s) : s[i] = t[i]

\* the ways a call ends because of what the provider answered
ResponseErrors == BudgetErrors \cup {"RepoDoesNotExist", "HTTPError"}

\* every page has items, every page but the last announces a next one
Honest == /\ Len(server) > 1
          /\ \A p \in 1..Len(server) :
                /\ server[p].n > 0
                /\ server[p].more <=> p < Len(server)

\* C2 as stated: a response with the empty status (409) ends the logical
\* call successfully as an empty stream: no exception, no retry.
C2_EmptyStatusEndsStream ==
    r.status = 409 =>
       /\ result \in {"none", "ok"}
       /\ pc \in {"returned", "done"}
       /\ timeout_counter = 0

\* C6 as stated: over pages of 100, 100 and 37 items followed by an empty
\* page the stream stops on the short page: 237 items, 3 page requests, the
\* fourth page is never requested.
C6_StopsOnShortPage ==
    /\ Len(calls) <= 3
    /\ (pc = "done" /\ result = "ok") =>
          /\ Len(yielded) = 2 * per_page + ShortPage
          /\ Len(calls) = 3

\* C6: GitHubAPI.request(paginate=True) over pages of 100, 100 and 37 items
\* stops on an empty page or on a response without a rel="next" link, not on
\* a short page: it yields the 237 items after 3 page requests when the
\* third response has no rel="next" link, and after a fourth request, for
\* the empty page, when it has one.
C6_StopsOnLinkHeader ==
    LET last == IF server[3].more THEN 4 ELSE 3
    IN  /\ Len(calls) <= last
        /\ \A k \in 1..Len(calls) : calls[k] = <<k, per_page>>
        /\ (pc = "done" /\ result = "ok") =>
              /\ yielded = ItemsFrom(1, 3)
              /\ Len(yielded) = 2 * per_page + ShortPage
              /\ Len(calls) = last
              /\ budget = MaxFaults => sent = last

C6_Witness ==
    /\ pc = "done"
    /\ result = "ok"
    /\ ~server[3].more
    /\ Len(yielded) = 2 * per_page + ShortPage
    /\ calls = <<<<1, per_page>>, <<2, per_page>>, <<3, per_page>>>>
    /\ sent = 3

\* the page on which v4 stops: the first whose hasNextPage is false
LastV4 == Min({p \in 1..(Len(server) + 1) : ~PageAt(p).more})

\* C7: the cursor pager sends request k + 1 only after a response whose
\* hasNextPage is true, with cursor = the endCursor of response k; the first
\* request carries no cursor set by the pager; over hasNextPage = true,
\* true, false exactly 3 requests are sent and the items are the
\* concatenation of the nodes of the responses.
C7_CursorChain ==
    /\ Len(calls) >= 1 => calls[1] = <<None, None>>
    /\ \A k \in 1..(Len(calls) - 1) :
          /\ PageAt(PageForCursor(calls[k][1])).more
          /\ calls[k + 1][1] = EndCursorOf(PageForCursor(calls[k][1]))
    /\ (pc = "done" /\ result = "ok" /\ r.shape = "nodes") =>
          /\ Len(calls) = LastV4
          /\ yielded = ItemsFrom(1, LastV4)
          /\ budget = MaxFaults => sent = LastV4

C7_Witness ==
    /\ pc = "done"
    /\ result = "ok"
    /\ Honest
    /\ Len(server) = 3
    /\ calls = <<<<None, None>>, <<EndCursorOf(1), None>>,
                 <<EndCursorOf(2), None>>>>
    /\ sent = 3
    /\ yielded = ItemsOf(1) \o ItemsOf(2) \o ItemsOf(3)
    /\ Len(yielded) > 3

\* C8: a paginated method returns its generator without sending a request;
\* each next() hands over at most one item; the first item is handed over
\* after exactly one page request; page N + 1 is requested only after every
\* item of page N has been pulled and the caller asked for one more; while
\* the caller does not pull, no request is sent.
C8_LazyState ==
    /\ pulls = 0 => sent = 0 /\ calls = <<>>
    /\ Len(yielded) <= pulls
    /\ pc = "yielded" => Len(yielded) = pulls
    /\ (kind = "paged" /\ pulls = 1) =>
          /\ Len(calls) = 1
          /\ budget = MaxFaults => sent <= 1
    /\ kind = "paged" =>
          \A k \in 1..(Len(calls) - 1) :
             /\ IsPrefix(ItemsFrom(1, k), yielded)
             /\ pulls > Len(ItemsFrom(1, k))

C8_LazyStep ==
    /\ (sent' # sent \/ calls' # calls) =>
          \/ pulls' = pulls + 1
          \/ pc \in {"scan", "call"}
    /\ pc \in {"created", "yielded", "abandoned", "done"} /\ pulls' = pulls =>
          sent' = sent /\ calls' = calls

C8_Lazy == []C8_LazyState /\ [][C8_LazyStep]_vars

\* the caller stopped after the first item of a page of two: one request
C8_Witness ==
    /\ kind = "paged"
    /\ pc = "abandoned"
    /\ Len(server) > 1
    /\ server[1].n = 2
    /\ yielded = <<<<1, 1>>>>
    /\ pulls = 1
    /\ sent = 1
    /\ Len(calls) = 1

\* C9 as stated, for the adapters whose pages are JSON lists (GitHub,
\* GitLab): a paginated stream over a resource of k > 1 pages yields every
\* item exactly once in page order and requests pages 1, ..., k in turn
\* with per_page 100, starting at 1 whatever page the caller passed.
C9_EveryItemOnceInOrder ==
    (/\ provider \in {"github", "gitlab"}
     /\ kind = "paged"
     /\ Honest
     /\ pc = "done"
     /\ result \notin ResponseErrors) =>
       /\ result = "ok"
       /\ yielded = ItemsFrom(1, Len(server))
       /\ calls = [k \in 1..Len(server) |-> <<k, per_page>>]

\* the page on which GitLabAPI.has_next_page ends the stream: the first
\* that is empty or whose X-Page is not below X-Total-Pages
LastGitLab ==
    Min({p \in 1..(Len(server) + 1) :
            \/ PageAt(p).n = 0
            \/ ~gitlab_has_next_page(p, IF PageAt(p).more THEN p + 1 ELSE p)})

\* C10 as stated: GitLab pagination requests the next page exactly when the
\* current page is non-empty and X-Page < X-Total-Pages, so a multi-page
\* resource is yielded completely.
C10_GitLabNextPage ==
    (/\ provider = "gitlab"
     /\ kind = "paged"
     /\ Honest
     /\ pc = "done"
     /\ result \notin ResponseErrors) =>
       /\ result = "ok"
       /\ Len(calls) = LastGitLab
       /\ yielded = ItemsFrom(1, LastGitLab)

(***************************************************************************)
(* The pool over constructor calls and requests                            *)
(***************************************************************************)
InitBuild ==
    /\ provider \in Providers
    /\ python = 3
    /\ kind = "_request"
    /\ hdrs = 0
    /\ budget = MaxFaults
    /\ server = <<>>
    /\ page = None
    /\ cursor = None
    /\ now = StartTime
    /\ limits = <<>>
    /\ search = <<>>
    /\ secrets = <<>>
    /\ made = 0
    /\ InitCall
    /\ headers = pool_headers(secrets)
    /\ frames = <<>>
    /\ quota = <<>>

\* requests are made between the constructor calls
NextBuild ==
    \/ Construct
    \/ built.count < MaxConstructions /\ CallRequest
    \/ ScanNext
    \/ ScanEnd
    \/ Attempt

SpecBuild == InitBuild /\ [][NextBuild]_vars

(***************************************************************************)
(* Properties of the pool (SpecBuild)                                      *)
(***************************************************************************)
Range(f) == {f[i] : i \in DOMAIN f}

\* the credentials of the pool created with secret sec
Holders(sec) == {i \in DOMAIN secrets : secrets[i] = sec}

\* this step is a constructor call
Constructs == built'.count = built.count + 1

\* C11: once non-empty secrets have been added and kept, adding them again
\* changes nothing: a constructor call whose tokens are all held by the
\* pool leaves the pool as it is and creates no token object, and a secret
\* repeated within one argument is held by at most one credential.
C11_OnePerSecret ==
    \A sec \in Secrets : Cardinality(Holders(sec)) <= 1

C11_AddingAgain ==
    (Constructs /\ built'.arg # <<>> /\ provider # "bitbucket") =>
       \* __init__ runs twice, a token object per new secret each time
       /\ made' - made <= 2 * Cardinality(Range(built'.arg) \ Range(secrets))
       /\ Range(built'.arg) \subseteq Range(secrets) =>
             /\ secrets' = secrets
             /\ limits' = limits
             /\ made' = made
             /\ built'.probes = <<>>

C11_IdempotentDedup == []C11_OnePerSecret /\ [][C11_AddingAgain]_vars

\* two secrets were added and kept, then both were passed again
C11_Witness ==
    /\ built.count = 2
    /\ built.arg = <<2, 1>>
    /\ built.probes = <<>>
    /\ Range(secrets) = {1, 2}
    /\ Len(secrets) = 2
    /\ made = 2

\* C12 as stated: the pool holds at most one credential per identity, the
\* anonymous identity included, however often the client is constructed
\* without a secret.
C12_OnePerIdentity ==
    \A sec \in Secrets \cup {None} : Cardinality(Holders(sec)) <= 1

\* C13: a constructor call only merges into the pool of its class: the
\* credentials held before stay, at their places and with their limit
\* windows, whatever is added behind them; requests do not change the
\* membership either.
C13_Merge ==
    /\ IsPrefix(secrets, secrets')
    /\ DOMAIN limits' = DOMAIN secrets'
    /\ made' >= made
    /\ Constructs => \A i \in DOMAIN limits : limits'[i] = limits[i]
    /\ ~Constructs => secrets' = secrets

C13_PoolOnlyGrows == [][C13_Merge]_vars

\* a request left the first credential exhausted; a later constructor call
\* added a credential behind it and the window is still there
C13_Witness ==
    /\ built.count = 2
    /\ seen.token = 1
    /\ limits[1] = seen.h
    /\ Len(secrets) >= 2
    /\ \E sec \in DOMAIN built.probes : Holders(sec) # {}

\* C14 as stated: a new secret is kept only if its probe shows it valid; a
\* secret whose probe the provider rejects, or whose probe cannot be
\* completed because the credential is exhausted, is not in the pool.
C14_OnlyValidKept ==
    \A sec \in DOMAIN built.probes \cap Secrets :
       built.probes[sec] \in {"rejected", "exhausted"} => Holders(sec) = {}

(***************************************************************************)
(* Properties of the scan of the pool (SpecRetry)                          *)
(***************************************************************************)
\* C15 as stated: with a pool of zero credentials a request fails at once
\* with the dedicated no-credentials error: no sleep, no endless scan, no
\* unrelated error.
C15_NoCredentialsError ==
    /\ (Tokens = {} /\ pc = "done") => result = "NoCredentials" /\ log = <<>>
    /\ Tokens = {} => pc \in {"created", "scan", "done"} /\ now = StartTime

\* the sample of a pool with credentials that report reset times is used up
ScanEnds ==
    /\ pc = "scan"
    /\ scan = <<>>
    /\ Tokens # {}
    /\ provider # "bitbucket"

\* C16 as stated: when the sample is used up the pool sleeps exactly when
\* the earliest reset time min(when) is in the future, for
\* int(earliest - now) + 1 seconds, and then samples again; it does not
\* sleep while a credential is ready.
C16_ScanStep ==
    ScanEnds =>
       LET earliest == Min({when(t) : t \in Tokens})
       IN  /\ (now' > now) <=> (earliest > now)
           /\ now' > now => now' - now = (earliest - now) + 1
           /\ (\E t \in Tokens : ready(t)) => now' = now
           /\ pc' = "scan" /\ scan' \in Samples

C16_PoolSleep == [][C16_ScanStep]_vars

(***************************************************************************)
(* One credential, its limit window and the clock                          *)
(***************************************************************************)
\* a header value as the server writes it: the decimal digits of n
RECURSIVE Digits(_)
Digits(n) == IF n < 10 THEN <<n>> ELSE Append(Digits(n \div 10), n % 10)

\* int(response.headers[...])
RECURSIVE int(_)
int(s) == IF s = <<>> THEN 0 ELSE 10 * int(SubSeq(s, 1, Len(s) - 1)) + s[Len(s)]

\* the windows a server reports at time t
ServerWindows(t) == [remaining : {0, 1, 10}, reset : {t - 1, t, t + ResetAhead}]

\* X-RateLimit-Remaining / X-RateLimit-Reset (RateLimit-* for GitLab)
RateLimitHeaders(w) ==
    [remaining |-> Digits(w.remaining), reset |-> Digits(w.reset)]

\* the window _update_limits stores for these headers
parse_headers(raw) ==
    [remaining |-> int(raw.remaining), reset |-> int(raw.reset)]

\* the credential is asked when(url) and ready(url) at one time: the time,
\* the window it has, and its two answers
Answers ==
    [at |-> now, window |-> limits[cur], when |-> when(cur), ready |-> ready(cur)]

InitReady ==
    /\ provider \in Providers
    /\ python = 3
    /\ kind = "_request"
    /\ hdrs = 0
    /\ budget = 0
    /\ server = <<>>
    /\ page = None
    /\ cursor = None
    /\ now = StartTime
    /\ limits \in [1..1 -> IF provider = "bitbucket"
                           THEN {NoWindow} ELSE InitialWindows]
    /\ search = <<NoWindow>>
    /\ secrets = <<IF provider = "bitbucket" THEN None ELSE 1>>
    /\ made = 1
    /\ pc = "created"
    /\ scan = <<>>
    /\ cur = 1
    /\ timeout_counter = 0
    /\ log = <<>>
    /\ r = [status |-> None, shape |-> "json"]
    /\ result = "none"
    /\ idx = 0
    /\ yielded = <<>>
    /\ calls = <<>>
    /\ sent = 0
    /\ pulls = 0
    /\ seen = NoSeen
    /\ asked = <<>>
    /\ built = NoBuilt
    /\ headers = pool_headers(secrets)
    /\ frames = <<>>
    /\ quota = <<>>

\* time passes
Tick ==
    /\ now < StartTime + MaxClock
    /\ now' = now + 1
    /\ UNCHANGED <<env, hdrs, seen, budget, limits, pc, scan, cur,
                   timeout_counter, log, r, result, pager, sent>>

\* token._update_limits(response, url) for a response of any status
ReceiveHeaders ==
    /\ \E w \in ServerWindows(now) :
          LET h == parse_headers(RateLimitHeaders(w))
          IN  /\ limits' = update_limits(h)
              /\ seen' = [token |-> cur, h |-> w]
    /\ UNCHANGED <<env, hdrs, budget, now, pc, scan, cur, timeout_counter,
                   log, r, result, pager, sent>>

\* token.when(url) and token.ready(url)
Ask ==
    /\ Len(asked) < MaxAsked
    /\ asked' = Append(asked, Answers)
    /\ UNCHANGED <<provider, python, kind, server, secrets, made, built, search,
                   headers, frames, quota,
                   hdrs, seen, budget, limits, now, pc, scan, cur, timeout_counter,
                   log, r, result, pager, sent>>

NextReady ==
    \/ Tick
    \/ ReceiveHeaders
    \/ Ask

SpecReady == InitReady /\ [][NextReady]_vars

(***************************************************************************)
(* Properties of ready() and when() (SpecReady)                            *)
(***************************************************************************)
\* the stored reset time of window w is strictly after time t
ResetInFuture(w, t) == w.reset # None /\ w.reset > t

\* C17: ready() answers false exactly when the window has remaining = 0 and
\* a reset time strictly in the future, and true otherwise; the window read
\* back after headers were parsed is the one the server wrote, so a window
\* with remaining 10 is ready whatever its reset time.
C17_ReadyAnswer ==
    \A i \in DOMAIN asked :
       asked[i].ready <=>
          ~(asked[i].window.remaining = 0
              /\ ResetInFuture(asked[i].window, asked[i].at))

C17_RoundTrip ==
    (seen.token # None /\ provider # "bitbucket") => limits[cur] = seen.h

C17_Ready == C17_ReadyAnswer /\ C17_RoundTrip

\* headers with remaining 10 and a reset time ahead were parsed into a window
\* that was exhausted, and ready() said yes
C17_Witness ==
    /\ limits[cur] = seen.h
    /\ \E i \in DOMAIN asked :
          /\ asked[i].window = seen.h
          /\ asked[i].window.remaining = 10
          /\ ResetInFuture(asked[i].window, asked[i].at)
          /\ asked[i].ready

\* C18 as stated: when() answers 0 or null whenever the credential is ready
\* now, and the stored reset time otherwise.
C18_WhenZeroIfReady ==
    \A i \in DOMAIN asked :
       IF asked[i].ready
       THEN asked[i].when \in {0, None}
       ELSE asked[i].when = asked[i].window.reset

\* C18, amended: when() answers 0 when remaining is not 0 (null for a token
\* without limits) and the stored reset time whenever remaining is 0, also
\* when that time has passed; the credential is ready exactly when the
\* answer is 0, null or not after the clock.
C18_WhenAnswer ==
    \A i \in DOMAIN asked :
       /\ asked[i].when =
             IF provider = "bitbucket" THEN None
             ELSE IF asked[i].window.remaining = 0
                  THEN asked[i].window.reset ELSE 0
       /\ asked[i].ready <=>
             (asked[i].when \in {0, None} \/ asked[i].when <= asked[i].at)

\* an exhausted window whose reset time has passed: the credential is ready
\* and when() still answers the reset time
C18_Witness ==
    \E i \in DOMAIN asked :
       /\ asked[i].window.remaining = 0
       /\ asked[i].when = asked[i].window.reset
       /\ asked[i].when < asked[i].at
       /\ asked[i].ready

(***************************************************************************)
(* Limit bookkeeping on every response                                     *)
(***************************************************************************)
\* a direct call of _request against a provider that sends limit headers
InitLimits ==
    /\ kind = "_request"
    /\ hdrs = MaxHeaders
    /\ budget = MaxFaults + MaxNotReady
    /\ server = <<>>
    /\ page = None
    /\ cursor = None
    /\ InitPool
    /\ InitCall

SpecLimits == InitLimits /\ [][NextRetry]_vars

\* this step is an attempt answered with "credential exhausted"
NotReadyStep == log' = Append(log, Event("notready", 0))

\* C19: a response with remaining = 0 and the provider's throttling status
\* makes _update_limits store the exhausted window and raise TokenNotReady;
\* _request goes on with the next credential of the scan, counts nothing
\* and does not sleep, and no call ever ends with TokenNotReady.
C19_Step ==
    NotReadyStep =>
       /\ seen'.h.remaining = 0
       /\ limits'[cur] = seen'.h
       /\ ~ready(cur)'
       /\ pc' = "scan" /\ scan' = scan
       /\ result' = result
       /\ timeout_counter' = timeout_counter
       /\ now' = now

HeadersStep == sent' = sent + 1 /\ seen' # seen

\* C20: whatever the status of a response and whatever _request does with
\* it (return, raise, sleep and retry), the window of the credential that
\* made the attempt is the one in the headers of that response.
C20_Stored ==
    (seen.token # None /\ provider # "bitbucket") => limits[seen.token] = seen.h

C20_Step ==
    HeadersStep => seen'.token = cur /\ limits'[cur] = seen'.h

C20_LimitsFollowResponses == []C20_Stored /\ [][C20_Step]_vars

\* a server error with limit headers: the window is stored, the call sleeps
\* and tries again, and the retry is answered "not found"
C20_Witness ==
    /\ result = "RepoDoesNotExist"
    /\ Len(log) >= 3
    /\ log[1][1] = "srv"
    /\ seen.token = cur
    /\ seen.h.remaining = 1
    /\ limits[cur] = seen.h
    /\ hdrs = 0

(***************************************************************************)
(* Properties of the failures of a logical call                            *)
(***************************************************************************)
\* C21 as stated: when the navigation along object_path does not find the
\* expected structure in the data of a response, the cursor stream ends
\* with the invalid-object-path error (VCSError).
C21_InvalidObjectPath ==
    (kind = "v4" /\ pc = "done" /\ r.shape \in {"nopath", "number"}) =>
       result = "VCSError"

\* the failures the taxonomy names
ClassifiedFailures == BudgetErrors \cup {"RepoDoesNotExist", "NoCredentials"}

\* the statuses _request classifies for the provider
ClassifiedStatuses ==
    NotFoundStatuses \cup {500, 502, 503}
       \cup (IF provider = "github" THEN {403} ELSE {})

\* C22 as stated: every failure of a _request call is one of the classified
\* terminal outcomes, whatever the statuses of the responses.
C22_OnlyClassifiedFailures ==
    (pc = "done" /\ result # "ok") => result \in ClassifiedFailures

\* C22, amended: a _request call ends with its response, with one of the
\* classified failures, with the raw HTTPError of the final status check
\* (at once, for a response whose error status is in no classification set),
\* with ValueError when the pool is empty, or with TypeError when a pool of
\* tokens without limits is scanned to its end on Python 3; the retryable
\* failures are absorbed until the counter exceeds retries_on_timeout.
C22_Outcomes ==
    pc = "done" =>
       /\ result \in {"ok", "HTTPError", "ValueError", "TypeError"}
                        \cup (ClassifiedFailures \ {"NoCredentials"})
       /\ result = "ok" =>
             /\ r.status \notin ClassifiedStatuses
             /\ r.status < 400
       /\ result = "HTTPError" =>
             /\ r.status \notin ClassifiedStatuses
             /\ r.status >= 400
             /\ log[Len(log)] = Event("httperr", 0)
       /\ result = "RepoDoesNotExist" => r.status \in NotFoundStatuses
       /\ result \in BudgetErrors => timeout_counter > retries_on_timeout
       /\ result = "ValueError" => Tokens = {} /\ sent = 0
       /\ result = "TypeError" => provider = "bitbucket" /\ python = 3

\* the first attempt is answered 401 and the call fails with HTTPError
C22_Witness ==
    /\ pc = "done"
    /\ result = "HTTPError"
    /\ r.status = 401
    /\ log = <<Event("httperr", 0)>>
    /\ sent = 1

(***************************************************************************)
(* One credential and its limit classes: APIToken.__call__, check_limits   *)
(***************************************************************************)
\* request URLs, by their first six characters and the rest
Urls == {[head |-> "repos/", rest |-> "o/r"],
         [head |-> "search", rest |-> "/issues"]}

\* the URL check_limits requests: 'rate_limit' for GitHub, '' for GitLab
limits_url ==
    IF provider = "github" THEN [head |-> "rate_l", rest |-> "imit"]
    ELSE [head |-> "", rest |-> ""]

\* APIToken.api_classes
api_classes == IF provider = "github" THEN {"core", "search"} ELSE {"core"}

api_class_m1(url) == "core"
\* GitHubAPIToken.api_class: 'search' if url.startswith('search') else 'core'
api_class(url) ==
    IF provider = "github" /\ url.head = "search" THEN "search" ELSE "core"

\* when() and ready() of a token whose window for the class of the URL is w
when_window(w) ==
    IF provider = "bitbucket" THEN None
    ELSE IF w.remaining # 0 THEN 0 ELSE w.reset

ready_window(w, t) ==
    IF provider = "bitbucket" THEN TRUE
    ELSE when_window(w) = None \/ when_window(w) = 0 \/ when_window(w) <= t

\* the windows of a token: one per limit class
WindowsOf(t) == [core |-> limits[t], search |-> search[t]]

\* what a request through the token meets: a network failure, or a response
\* with a status and, maybe, rate-limit headers
ProbeStatuses == {200, 403, 429}

Responses ==
    {[net |-> FALSE, status |-> st, h |-> h] :
        st \in ProbeStatuses,
        h \in IF provider = "bitbucket" THEN {NoWindow}
              ELSE {NoWindow} \cup Windows(now)}
    \cup {[net |-> TRUE, status |-> None, h |-> NoWindow]}

\* APIToken.__call__(url) on a token with the windows ws, met by resp:
\* the windows afterwards, whether a request was sent, what is raised
token_call(ws, url, resp) ==
    IF ~ready_window(ws[api_class(url)], now)
    THEN [ws |-> ws, sent |-> FALSE, error |-> "TokenNotReady"]
    ELSE IF resp.net
    THEN [ws |-> ws, sent |-> TRUE, error |-> "RequestException"]
    ELSE IF provider = "bitbucket" \/ resp.h.remaining = None
    THEN [ws |-> ws, sent |-> TRUE, error |-> "none"]
    ELSE [ws |-> [ws EXCEPT ![api_class(url)] = resp.h],
          sent |-> TRUE,
          error |-> IF raises_not_ready(resp.status, resp.h)
                    THEN "TokenNotReady" ELSE "none"]

\* the body of a limit-status response: with a 'resources' object that has
\* a window per class, or without one (an error message, GitLab's answer)
NoStats == [c \in {} |-> NoWindow]

NoBody == [resources |-> FALSE, stats |-> NoStats]

Bodies ==
    {NoBody} \cup
    {[resources |-> TRUE, stats |-> f] :
        f \in [api_classes ->
                 {[remaining |-> 1, reset |-> now + ResetAhead],
                  [remaining |-> 0, reset |-> now + ResetAhead]}]}

\* keeps the remaining count of the probe and drops its reset time
stats_windows_m1(ws, stats) ==
    [c \in DOMAIN ws |->
        IF c \notin api_classes THEN ws[c]
        ELSE IF c \in DOMAIN stats
        THEN [remaining |-> stats[c].remaining, reset |-> None]
        ELSE NoWindow]

\* json_map over stats.get(cls, {}) for every class of api_classes
stats_windows(ws, stats) ==
    [c \in DOMAIN ws |->
        IF c \notin api_classes THEN ws[c]
        ELSE IF c \in DOMAIN stats THEN stats[c] ELSE NoWindow]

\* check_limits() on a token with the windows ws
check_limits(ws, resp, body) ==
    IF provider = "bitbucket"
    THEN [ws |-> ws, sent |-> FALSE, error |-> "none"]
    ELSE LET c == token_call(ws, limits_url, resp)
         IN  IF c.error = "TokenNotReady"
             THEN \* stats = {}
                  [ws |-> stats_windows(c.ws, NoStats), sent |-> c.sent,
                   error |-> "none"]
             ELSE IF c.error # "none"
             THEN c
             ELSE IF ~body.resources
             THEN [ws |-> c.ws, sent |-> c.sent, error |-> "KeyError"]
             ELSE [ws |-> stats_windows(c.ws, body.stats), sent |-> c.sent,
                   error |-> "none"]

\* one operation on the token: what it was, when, the windows before and
\* after, the response, and how it ended
Operation(op, url, resp, body, o) ==
    [op |-> op, url |-> url, at |-> now, before |-> WindowsOf(cur),
     resp |-> resp, body |-> body, after |-> o.ws, sent |-> o.sent,
     error |-> o.error]

Operate(op, url, resp, body, o) ==
    /\ limits' = [limits EXCEPT ![cur] = o.ws.core]
    /\ search' = [search EXCEPT ![cur] = o.ws.search]
    /\ sent' = IF o.sent THEN sent + 1 ELSE sent
    /\ asked' = Append(asked, Operation(op, url, resp, body, o))

\* token(url)
TokenCall ==
    /\ Len(asked) < MaxAsked
    /\ \E url \in Urls, resp \in Responses :
          Operate("call", url, resp, NoBody,
                  token_call(WindowsOf(cur), url, resp))
    /\ UNCHANGED <<provider, python, kind, server, secrets, made, built, hdrs,
                   headers, frames, quota,
                   seen, budget, now, pc, scan, cur, timeout_counter, log, r,
                   result, pager>>

\* token.check_limits()
CheckLimits ==
    /\ Len(asked) < MaxAsked
    /\ \E resp \in Responses, body \in Bodies :
          Operate("check_limits", limits_url, resp, body,
                  check_limits(WindowsOf(cur), resp, body))
    /\ UNCHANGED <<provider, python, kind, server, secrets, made, built, hdrs,
                   headers, frames, quota,
                   seen, budget, now, pc, scan, cur, timeout_counter, log, r,
                   result, pager>>

\* a token with windows left by earlier responses
InitToken ==
    /\ provider \in Providers
    /\ python = 3
    /\ kind = "_request"
    /\ hdrs = 0
    /\ budget = 0
    /\ server = <<>>
    /\ page = None
    /\ cursor = None
    /\ now = StartTime
    /\ limits \in [1..1 -> IF provider = "bitbucket"
                           THEN {NoWindow} ELSE InitialWindows]
    /\ search \in [1..1 -> IF provider = "github"
                           THEN InitialWindows ELSE {NoWindow}]
    /\ secrets = <<IF provider = "bitbucket" THEN None ELSE 1>>
    /\ made = 1
    /\ pc = "created"
    /\ scan = <<>>
    /\ cur = 1
    /\ timeout_counter = 0
    /\ log = <<>>
    /\ r = [status |-> None, shape |-> "json"]
    /\ result = "none"
    /\ idx = 0
    /\ yielded = <<>>
    /\ calls = <<>>
    /\ sent = 0
    /\ pulls = 0
    /\ seen = NoSeen
    /\ asked = <<>>
    /\ built = NoBuilt
    /\ headers = pool_headers(secrets)
    /\ frames = <<>>
    /\ quota = <<>>

NextToken ==
    \/ Tick
    \/ TokenCall
    \/ CheckLimits

SpecToken == InitToken /\ [][NextToken]_vars

(***************************************************************************)
(* Properties of the limit classes (SpecToken)                             *)
(***************************************************************************)
\* C23 as stated: a check_limits call that returns has sent one probe and
\* has overwritten the window of every declared class with what the probe
\* reported for it.
C23_RefreshStoresProbe ==
    \A i \in DOMAIN asked :
       (asked[i].op = "check_limits" /\ asked[i].error = "none"
          /\ provider # "bitbucket") =>
          /\ asked[i].sent
          /\ asked[i].body.resources
          /\ \A c \in api_classes : asked[i].after[c] = asked[i].body.stats[c]

(***************************************************************************)
(* Properties of the retry budget (SpecRetry, SpecPager, SpecV4)           *)
(***************************************************************************)
\* the attempts of the call that ended neither in success nor in a terminal
\* error
Retried == {i \in 1..Len(log) : log[i][1] \in {"neterr", "srv", "tmr", "notready"}}

\* C24 as stated: every attempt that ends neither in success nor in a
\* terminal error counts against the budget, an attempt answered "credential
\* exhausted" included, so no call sends more than retries_on_timeout + 1
\* requests.
C24_EveryAttemptCounted ==
    /\ pc # "done" => timeout_counter = Cardinality(Retried)
    /\ sent <= retries_on_timeout + 1

(***************************************************************************)
(* Selection of the credential for every attempt                           *)
(***************************************************************************)
\* a pool of two credentials, so that there is another one to go to
InitRotate ==
    /\ kind = "_request"
    /\ hdrs = MaxHeaders
    /\ budget = MaxFaults + MaxNotReady
    /\ server = <<>>
    /\ page = None
    /\ cursor = None
    /\ provider \in Providers
    /\ python \in IF provider = "bitbucket" THEN {2, 3} ELSE {3}
    /\ now = StartTime
    /\ limits \in IF provider = "bitbucket"
                  THEN [1..2 -> {NoWindow}]
                  ELSE [1..2 -> InitialWindows]
    /\ secrets = [i \in 1..2 |->
                     IF provider = "bitbucket" THEN None ELSE i]
    /\ search = [i \in 1..2 |-> NoWindow]
    /\ made = Len(limits)
    /\ InitCall
    /\ headers = pool_headers(secrets)
    /\ frames = <<>>
    /\ quota = <<>>

SpecRotate == InitRotate /\ [][NextRetry]_vars

\* C25: a request is sent only through a credential that is ready when it is
\* sent: the scan hands out a credential only if it is ready at that moment,
\* and after every attempt that does not end the call the next credential
\* comes from the scan again.
C25_ReadyAtCall ==
    pc = "call" => /\ cur \in Tokens
                   /\ ready_window(limits[cur], now)

C25_Step ==
    /\ sent' = sent + 1 => pc = "call" /\ ready_window(limits[cur], now)
    /\ (pc = "scan" /\ pc' = "call") =>
          /\ cur' = Head(scan)
          /\ scan' = Tail(scan)
          /\ ready_window(limits[cur'], now)
          /\ sent' = sent
    /\ pc = "call" => pc' \in {"scan", "done"}
    /\ (pc = "scan" /\ scan # <<>> /\ ~ready_window(limits[Head(scan)], now)) =>
          pc' = "scan" /\ sent' = sent

C25_OnlyReadyCredentials == []C25_ReadyAtCall /\ [][C25_Step]_vars

\* the first credential was reported exhausted by its response; the call
\* went on with the other one, which answered
C25_Witness ==
    /\ pc = "done"
    /\ result = "ok"
    /\ log = <<Event("notready", 0), Event("ok", 0)>>
    /\ seen.token # cur
    /\ ~ready_window(limits[seen.token], now)
    /\ sent = 2

(***************************************************************************)
(* The retry budget of a paginated stream                                  *)
(***************************************************************************)
\* a GitHub stream, by page number or by cursor, over pages of one item,
\* whose provider may fail on more than one page
InitStreamFaults ==
    /\ kind \in {"paged", "v4"}
    /\ provider = "github"
    /\ server \in {s \in Resources : \A i \in DOMAIN s : s[i].n = 1}
    /\ page = None
    /\ cursor = None
    /\ python = 3
    /\ now = StartTime
    /\ hdrs = 0
    /\ budget = MaxFaults + 1
    /\ limits = <<NoWindow>>
    /\ search = <<NoWindow>>
    /\ secrets = <<None>>
    /\ made = 1
    /\ InitCall
    /\ headers = pool_headers(secrets)
    /\ frames = <<>>
    /\ quota = <<>>

NextStreamFaults ==
    \/ PullFirst
    \/ PullNext
    \/ ScanNext
    \/ ScanEnd
    \/ Attempt
    \/ ReturnedToRequest
    \/ ReturnedToV4

SpecStreamFaults == InitStreamFaults /\ [][NextStreamFaults]_vars

\* C26: every _request call of a stream starts with timeout_counter = 0:
\* the counter is the number of counted failures of the current page
\* request only, and the sleep after a failure is the power of two of that
\* number, whatever failed while earlier pages were fetched.
C26_CounterOfThisPage ==
    /\ timeout_counter = CountedUpTo(Len(log))
    /\ \A i \in 2..Len(log) :
          log[i][1] = "sleep" =>
             log[i][2] = IF log[i - 1][1] = "srv"
                         THEN 2 ^ CountedUpTo(i - 1)
                         ELSE 2 ^ (CountedUpTo(i - 1) + 1)

C26_Step ==
    Len(calls') = Len(calls) + 1 => timeout_counter' = 0 /\ log' = <<>>

C26_BudgetPerPage == []C26_CounterOfThisPage /\ [][C26_Step]_vars

\* a server error while page 1 was fetched, another one while page 2 is
\* fetched: the counter is 1 again and the sleep is 2 seconds again
C26_Witness ==
    /\ Len(calls) = 2
    /\ budget = MaxFaults - 1
    /\ log = <<Event("srv", 0), Event("sleep", 2)>>
    /\ timeout_counter = 1
    /\ yielded # <<>>

(***************************************************************************)
(* Mixed failures within one call (SpecRetry)                              *)
(***************************************************************************)
\* the error a call ends with when a failure of this kind exceeds the budget
ErrorOf(what) ==
    IF what = "neterr" THEN "RequestException"
    ELSE IF what = "srv" THEN "Timeout: VCS is down"
    ELSE "Timeout: Too many requests"

\* C27: with failures of several kinds in one call, the sleep after a
\* counted failure is 2^c after a server error and 2^(c+1) after a
\* throttling response, c being the count of all counted failures so far,
\* of whatever kind; the error that ends the call when the budget is used
\* up is the one of the kind of the last failure.
C27_MixedFailures ==
    /\ \A i \in 1..Len(log) :
          log[i][1] = "sleep" =>
             /\ i > 1
             /\ log[i - 1][1] \in {"srv", "tmr"}
             /\ log[i - 1][1] = "srv" => log[i][2] = 2 ^ CountedUpTo(i - 1)
             /\ log[i - 1][1] = "tmr" => log[i][2] = 2 ^ (CountedUpTo(i - 1) + 1)
    /\ result \in BudgetErrors =>
          /\ log # <<>>
          /\ log[Len(log)][1] \in {"neterr", "srv", "tmr"}
          /\ result = ErrorOf(log[Len(log)][1])

\* a network failure, then the first server error (sleep 4, not 2), ..., and
\* a throttling response as the failure that exceeds the budget
C27_Witness ==
    /\ pc = "done"
    /\ result = "Timeout: Too many requests"
    /\ Len(log) >= 3
    /\ log[1] = Event("neterr", 0)
    /\ log[2] = Event("srv", 0)
    /\ log[3] = Event("sleep", 4)
    /\ Count("srv") = 1

\* the response of the last attempt reached the final status check
FinalCheck == log # <<>> /\ log[Len(log)][1] \in {"httperr", "ok"}

\* a response with an error status that no branch of _request classifies
\* ends the call with the raw HTTPError, as the last event of the call
C28_FailsOnThatAttempt ==
    /\ (r.status \in Statuses \ ClassifiedStatuses /\ r.status >= 400) =>
          /\ pc = "done"
          /\ result = "HTTPError"
          /\ log[Len(log)] = Event("httperr", 0)
    /\ \A i \in 1..Len(log) :
          log[i][1] \in {"httperr", "ok"} => i = Len(log) /\ pc = "done"

\* the attempt that reaches the final status check: no sleep, no retry, the
\* counter as it was; a passing response is the result of the call
C28_Step ==
    (pc = "call" /\ FinalCheck') =>
       /\ r'.status \in Statuses \ ClassifiedStatuses
       /\ log' = Append(log, log'[Len(log')])
       /\ sent' = sent + 1
       /\ timeout_counter' = timeout_counter
       /\ now' = now
       /\ budget' = budget
       /\ pc' = "done"
       /\ IF r'.status >= 400
          THEN result' = "HTTPError" /\ log'[Len(log')][1] = "httperr"
          ELSE result' = "ok" /\ log'[Len(log')][1] = "ok"

\* C28: a response whose status is in no classification set and is an error
\* status fails the call on that attempt through the final status check
\* (no retry, no sleep, timeout_counter unchanged); a response that passes
\* the final check ends the loop and is returned.
C28_FinalStatusCheck == []C28_FailsOnThatAttempt /\ [][C28_Step]_vars

\* after one server error (counter 1, sleep 2) the answer 504 ends the call
C28_Witness ==
    /\ pc = "done"
    /\ result = "HTTPError"
    /\ r.status = 504
    /\ log = <<Event("srv", 0), Event("sleep", 2), Event("httperr", 0)>>
    /\ timeout_counter = 1
    /\ sent = 2

(***************************************************************************)
(* Frame of the limit windows (SpecToken)                                  *)
(***************************************************************************)
\* the class a URL is charged to, as the provider documents it
ChargedClass(url) ==
    IF provider = "github" /\ url.head = "search" THEN "search" ELSE "core"

\* a window with nothing remaining whose reset lies after t
Exhausted(w, t) == w.remaining = 0 /\ w.reset > t

\* C29: the limit classes are independent: a request for a URL overwrites
\* only the window of the class of that URL ('search' for GitHub URLs that
\* start with 'search', 'core' otherwise) and leaves the other class as it
\* was; whether the token accepts the request depends only on the window
\* of that class, so a token exhausted for 'search' is ready for 'core' and
\* the other way round.
C29_ClassesIndependent ==
    \A i \in DOMAIN asked :
       asked[i].op = "call" =>
          LET e == asked[i]
              c == ChargedClass(e.url)
          IN  /\ \A o \in DOMAIN e.after \ {c} : e.after[o] = e.before[o]
              /\ (e.sent /\ ~e.resp.net /\ e.resp.h.remaining # None) =>
                    e.after[c] = e.resp.h
              /\ provider # "bitbucket" =>
                    (e.sent <=> ~Exhausted(e.before[c], e.at))

\* a token exhausted for 'search' answers a 'core' URL: the request is sent,
\* the 'core' window takes the headers, the 'search' window stays exhausted
C29_Witness ==
    \E i \in DOMAIN asked :
       /\ asked[i].op = "call"
       /\ provider = "github"
       /\ asked[i].url.head = "repos/"
       /\ Exhausted(asked[i].before.search, asked[i].at)
       /\ asked[i].sent
       /\ asked[i].after.core = asked[i].resp.h
       /\ asked[i].after.core # asked[i].before.core
       /\ asked[i].after.search = asked[i].before.search

(***************************************************************************)
(* Attempts that report no limits (SpecRotate)                             *)
(***************************************************************************)
\* this step is an attempt that brought no remaining-count header: the
\* request failed below HTTP, or the response came without the header
NoLimitsStep == sent' = sent + 1 /\ hdrs' = hdrs /\ ~NotReadyStep

C30_Step ==
    NoLimitsStep =>
       /\ pc = "call"
       /\ \A t \in Tokens : limits'[t] = limits[t] /\ search'[t] = search[t]
       /\ seen' = seen

\* C30: a network failure (no response at all) and a response without a
\* remaining-count header leave every limit window unchanged, those of the
\* credential that made the attempt and those of every other credential.
C30_NoLimitsNoChange == [][C30_Step]_vars

\* a network failure, then a response without the header: the expired
\* window of the credential and the window of the other one are still there
C30_Witness ==
    /\ pc = "done"
    /\ result = "ok"
    /\ log = <<Event("neterr", 0), Event("ok", 0)>>
    /\ sent = 2
    /\ hdrs = MaxHeaders
    /\ limits[cur] = [remaining |-> 0, reset |-> StartTime]
    /\ \E t \in Tokens \ {cur} : limits[t].remaining = 0

(***************************************************************************)
(* The stored windows (SpecToken)                                          *)
(***************************************************************************)
\* C31: for every credential and limit class, a window nothing has been
\* observed for is all-null and the credential is ready for the class (a
\* request for it is sent); a window written by a response or by
\* check_limits has a reset time whenever its remaining count is 0.
C31_WindowInvariant ==
    /\ \A t \in Tokens : \A c \in api_classes :
          LET w == WindowsOf(t)[c]
          IN  /\ w.remaining = None => w = NoWindow /\ ready_window(w, now)
              /\ w.remaining = 0 => w.reset # None
    /\ \A i \in DOMAIN asked :
          LET e == asked[i]
          IN  /\ (e.op = "call" /\ e.before[ChargedClass(e.url)] = NoWindow)
                    => e.sent
              /\ \A c \in api_classes :
                    e.after[c].remaining = 0 => e.after[c].reset # None

\* check_limits on a token nothing was known about: the probe reports the
\* 'core' class exhausted, and the window stored has the reset time
C31_Witness ==
    \E i \in DOMAIN asked :
       /\ asked[i].op = "check_limits"
       /\ asked[i].error = "none"
       /\ asked[i].sent
       /\ asked[i].before.core = NoWindow
       /\ asked[i].after.core.remaining = 0
       /\ asked[i].after.core.reset = asked[i].at + ResetAhead
       /\ limits[cur] = asked[i].after.core

(***************************************************************************)
(* The authorization header of a credential: the token constructors and    *)
(* APIToken.__call__ (SpecHeaders)                                         *)
(***************************************************************************)
\* the secret under the authorization key of the headers token t sends:
\* headers=self._headers, the token's own dictionary for GitHub and the
\* dictionary of the class otherwise
sent_header(t) ==
    IF provider = "github" THEN headers.own[t] ELSE headers.class

\* token_class(secret): a further credential
NewToken ==
    /\ made <= MaxSecrets
    /\ \E sec \in IF provider = "bitbucket" THEN {None} ELSE Secrets :
          /\ secrets' = Append(secrets, sec)
          /\ headers' = pool_headers(Append(secrets, sec))
    /\ limits' = Append(limits, NoWindow)
    /\ search' = Append(search, NoWindow)
    /\ made' = made + 1
    /\ UNCHANGED <<provider, python, kind, server, asked, built, hdrs, seen,
                   budget, now, pc, scan, cur, timeout_counter, log, r,
                   result, pager, sent, frames, quota>>

\* token(url): the request goes out with self._headers
SendThrough ==
    /\ Len(asked) < MaxAsked
    /\ \E t \in Tokens :
          asked' = Append(asked, [token |-> t, secret |-> secrets[t],
                                  carried |-> sent_header(t)])
    /\ sent' = sent + 1
    /\ UNCHANGED <<provider, python, kind, server, secrets, made, built,
                   search, headers, frames, quota, hdrs, seen, budget, limits, now, pc,
                   scan, cur, timeout_counter, log, r, result, pager>>

InitHeaders ==
    /\ provider \in Providers
    /\ python = 3
    /\ kind = "_request"
    /\ hdrs = 0
    /\ budget = 0
    /\ server = <<>>
    /\ now = StartTime
    /\ limits = <<>>
    /\ search = <<>>
    /\ secrets = <<>>
    /\ made = 0
    /\ headers = pool_headers(secrets)
    /\ frames = <<>>
    /\ quota = <<>>
    /\ pc = "created"
    /\ scan = <<>>
    /\ cur = None
    /\ timeout_counter = 0
    /\ log = <<>>
    /\ r = [status |-> None, shape |-> "json"]
    /\ result = "none"
    /\ page = None
    /\ cursor = None
    /\ idx = 0
    /\ yielded = <<>>
    /\ calls = <<>>
    /\ sent = 0
    /\ pulls = 0
    /\ seen = NoSeen
    /\ asked = <<>>
    /\ built = NoBuilt

NextHeaders ==
    \/ NewToken
    \/ SendThrough

SpecHeaders == InitHeaders /\ [][NextHeaders]_vars

\* C32 as stated: every request made through a GitHub or GitLab credential
\* carries the secret that credential was created with, whatever other
\* credentials have been created.
C32_OwnSecretSent ==
    \A i \in DOMAIN asked :
       provider # "bitbucket" => asked[i].carried = asked[i].secret

(***************************************************************************)
(* The throttling status of each provider (SpecLimits)                     *)
(***************************************************************************)
\* C33 as stated: the status a provider's credential takes for throttling
\* (403 for GitHub, 429 for GitLab) is classified as "too many requests" by
\* that provider's _request: a response with it and requests remaining is
\* retried after the throttling backoff, and never ends the call as the
\* failure of that attempt.
C33_ThrottlingStatusRetried ==
    (provider # "bitbucket" /\ pc = "done" /\ result = "HTTPError") =>
       r.status # exhausted_status(provider)

(***************************************************************************)
(* check_limits on a token that is not ready (SpecToken)                   *)
(***************************************************************************)
\* C34 as stated: a check_limits call whose probe is not sent, the token
\* being not ready, leaves every limit window as it was: an exhausted
\* token does not become ready through check_limits.
C34_NotReadyKeepsWindows ==
    \A i \in DOMAIN asked :
       (asked[i].op = "check_limits" /\ ~asked[i].sent
          /\ provider # "bitbucket") =>
          /\ asked[i].after = asked[i].before
          /\ \A c \in api_classes :
                Exhausted(asked[i].before[c], asked[i].at) =>
                   ~ready_window(asked[i].after[c], asked[i].at)

(***************************************************************************)
(* A pool of dummy credentials (SpecRetry, Bitbucket)                      *)
(***************************************************************************)
\* C35 as stated: a pool of credentials without reset information never
\* sleeps in iterate_tokens, and after a retryable failure the next scan
\* yields the credential again: the call ends with a response, with a
\* failure of the provider's answer, or with the retry budget used up.
C35_DummyPoolRetries ==
    (provider = "bitbucket" /\ Tokens # {}) =>
       /\ Count("poolsleep") = 0
       /\ pc = "done" =>
             result \in {"ok", "HTTPError", "RepoDoesNotExist"}
                           \cup BudgetErrors

(***************************************************************************)
(* The end of a paginated stream (SpecPager, SpecV4)                       *)
(***************************************************************************)
\* the provider's signal at page p: there is no next page
NoNextPage(p) ==
    IF kind = "v4" THEN ~PageAt(p).more
    ELSE ~PageAt(p).more \/ PageAt(p).n = 0

\* the first page at which the provider reports no more pages
LastPage == Min({p \in 1..(Len(server) + 1) : NoNextPage(p)})

\* every request of the stream so far has succeeded at its first attempt
EveryRequestSucceeds ==
    /\ sent <= Len(calls)
    /\ \A i \in 1..Len(log) : log[i][1] = "ok"

\* C36 as stated: a paginated stream whose requests all succeed makes no
\* request after the page at which the provider reports no more pages, and
\* ends after exactly that many requests.
C36_EndsAtLastPage ==
    (kind \in {"paged", "v4"} /\ EveryRequestSucceeds) =>
       /\ Len(calls) <= LastPage
       /\ pc = "done" => Len(calls) = LastPage

\* the same for the pagers of GitHub, the provider whose next-page signal
\* request() and v4() read
C36_GitHubEndsAtLastPage ==
    (provider = "github" /\ r.shape \in {"json", "nodes"}) =>
       C36_EndsAtLastPage

(***************************************************************************)
(* Several streams of one client: the generators of VCSAPI.request and     *)
(* GitHubAPIv4.v4 (SpecStreams)                                            *)
(***************************************************************************)
\* streams a caller keeps open at once
Streams == 1..2

\* `**params` is a dictionary of the call: params.update(init_pagination())
\* puts page 1 into it, v4 starts without a cursor
first_param == IF kind = "v4" THEN None ELSE init_pagination.page

\* the page a request with this parameter is answered with
page_of(param) == IF kind = "v4" THEN PageForCursor(param) ELSE param

\* a params dictionary shared by the generators
advance_m1(fs, i) ==
    LET new == IF kind = "v4"
               THEN next_cursor(fs[i].param, page_of(fs[i].param))
               ELSE fs[i].param + 1
    IN  [j \in DOMAIN fs |-> [fs[j] EXCEPT !.param = new]]

\* params["page"] += 1, params['cursor'] = endCursor: the dictionary of
\* generator i
advance(fs, i) ==
    [fs EXCEPT ![i].param =
        IF kind = "v4" THEN next_cursor(@, page_of(@)) ELSE @ + 1]

\* what a step of a generator leaves alone
StreamFrame ==
    UNCHANGED <<provider, python, kind, server, secrets, made, asked, built,
                search, headers, quota, hdrs, seen, budget, limits, now, pc, scan,
                cur, timeout_counter, log, r, result, pager>>

\* a generator runs up to its next _request and sends it
StreamRequest ==
    /\ \E i \in Streams :
          /\ frames[i].pc \in {"created", "yielded"}
          /\ frames' = [frames EXCEPT ![i].pc = "waiting",
                                      ![i].calls = Append(@, frames[i].param)]
    /\ sent' = sent + 1
    /\ StreamFrame

\* the response arrives: the generator yields the items of the page and,
\* when it is resumed after the last of them, returns or moves to the next
\* page
StreamResponse ==
    /\ \E i \in Streams :
          /\ frames[i].pc = "waiting"
          /\ frames' = IF NoNextPage(page_of(frames[i].param))
                       THEN [frames EXCEPT ![i].pc = "done"]
                       ELSE [advance(frames, i) EXCEPT ![i].pc = "yielded"]
    /\ sent' = sent
    /\ StreamFrame

NextStreams ==
    \/ StreamRequest
    \/ StreamResponse

InitStreams ==
    /\ kind \in {"paged", "v4"}
    /\ provider = "github"
    /\ server \in Resources
    /\ page = None
    /\ cursor = None
    /\ python = 3
    /\ now = StartTime
    /\ hdrs = 0
    /\ budget = 0
    /\ limits = <<NoWindow>>
    /\ search = <<NoWindow>>
    /\ secrets = <<None>>
    /\ made = 1
    /\ InitCall
    /\ headers = pool_headers(secrets)
    /\ quota = <<>>
    /\ frames = [i \in Streams |->
                   [pc |-> "created", param |-> first_param, calls |-> <<>>]]

SpecStreams == InitStreams /\ [][NextStreams]_vars

\* the parameter of the n-th request of a stream that runs alone
ParamAlone(n) ==
    IF n = 1 THEN first_param
    ELSE IF kind = "v4" THEN EndCursorOf(n - 1) ELSE n

\* every stream has asked for its own pages 1, 2, 3, ... (its own cursor
\* chain), up to the page that reports no next page
C37_OwnPages ==
    \A i \in DOMAIN frames :
       /\ \A n \in 1..Len(frames[i].calls) : frames[i].calls[n] = ParamAlone(n)
       /\ Len(frames[i].calls) <= LastPage
       /\ frames[i].pc = "done" => Len(frames[i].calls) = LastPage

\* a step of one stream leaves the other stream as it was
C37_Step ==
    \A i \in DOMAIN frames :
       frames'[i] # frames[i] =>
          \A j \in DOMAIN frames \ {i} : frames'[j] = frames[j]

\* C37: pagination state is local to one stream: under any interleaving of
\* two streams over the same endpoint of one client, the page number (or
\* cursor) advanced by one never changes the page (or cursor) the other
\* asks for; each asks for its own pages 1, 2, 3, ... as when run alone.
C37_LocalPagination == []C37_OwnPages /\ [][C37_Step]_vars

\* one stream has asked for its third page while the other still waits for
\* its first
C37_Witness ==
    /\ frames # <<>>
    /\ Len(frames[1].calls) = 3
    /\ frames[2].pc = "waiting"
    /\ Len(frames[2].calls) = 1
    /\ frames[1].param # frames[2].param

(***************************************************************************)
(* Two callers and the credentials they share: APIToken.__call__,          *)
(* _update_limits, VCSAPI._request and iterate_tokens (SpecRace)           *)
(***************************************************************************)
\* calls of _request that run at once
Callers == 1..2

\* requests a provider allows per window
WindowSize == 2

NoResponse == [status |-> None, h |-> NoWindow]

\* a window stored field by field, the reset time lagging behind
store_window_m1(ls, t, h) ==
    IF h.remaining # None
    THEN [ls EXCEPT ![t] = [remaining |-> h.remaining,
                            reset |-> IF ls[t].reset = None THEN h.reset
                                      ELSE ls[t].reset]]
    ELSE ls

\* _update_limits: self.limits[cls] = {...}, one assignment of a window
\* built from the headers of one response
store_window(ls, t, h) ==
    IF h.remaining # None THEN [ls EXCEPT ![t] = h] ELSE ls

\* the provider's window for a token when a request arrives at time t: a
\* window that has reset starts afresh
renewed(q, t) ==
    IF q.reset <= t THEN [remaining |-> WindowSize, reset |-> t + ResetAhead]
    ELSE q

\* the provider's window after the request
charged(q, t) ==
    LET w == renewed(q, t)
    IN  IF w.remaining > 0 THEN [w EXCEPT !.remaining = @ - 1] ELSE w

\* the provider's answer: the throttling status when nothing remains
answer(q, t) ==
    [status |-> IF renewed(q, t).remaining > 0 THEN 200
                ELSE exhausted_status(provider),
     h |-> charged(q, t)]

RaceFrame ==
    UNCHANGED <<provider, python, kind, server, secrets, made, asked, built,
                search, headers, hdrs, seen, budget, pc, scan, cur,
                timeout_counter, log, r, result, pager>>

\* when() reads self.limits[key] twice, first its 'remaining' and then its
\* 'reset'; another thread can store a new window in between.  A caller
\* about to ask the tokens takes the first reading
RacePeek ==
    /\ \E i \in Callers :
          /\ frames[i].pc \in {"scan", "call"}
          /\ frames' = [frames EXCEPT
                          ![i].pc = IF @ = "scan" THEN "pick" ELSE "recheck",
                          ![i].rem = [t \in Tokens |-> limits[t].remaining]]
    /\ UNCHANGED <<limits, quota, now, sent>>
    /\ RaceFrame

\* when() as caller i evaluates it: 'remaining' as read before, 'reset' as
\* stored now
when_read(i, t) == IF frames[i].rem[t] # 0 THEN 0 ELSE limits[t].reset

ready_read(i, t) ==
    when_read(i, t) = None \/ when_read(i, t) = 0 \/ when_read(i, t) <= now

\* iterate_tokens: the next credential that is ready; when the sample holds
\* none, the pool sleeps until the earliest reset (plus one second)
RaceScan ==
    /\ \E i \in Callers :
          /\ frames[i].pc = "pick"
          /\ LET Ready == {t \in Tokens : ready_read(i, t)}
                 next_res == Min({when_read(i, t) : t \in Tokens})
             IN  IF Ready # {}
                 THEN \E t \in Ready :
                         frames' = [frames EXCEPT ![i].pc = "call",
                                                  ![i].token = t]
                 ELSE frames' = [frames EXCEPT
                                   ![i].pc = "sleep",
                                   ![i].wake = now + pool_sleep(next_res)]
    /\ UNCHANGED <<limits, quota, now, sent>>
    /\ RaceFrame

\* APIToken.__call__: the readiness check again, then the request
RaceSend ==
    /\ \E i \in Callers :
          /\ frames[i].pc = "recheck"
          /\ LET t == frames[i].token
             IN  IF ~ready_read(i, t)
                 THEN \* raise TokenNotReady: `continue`
                      /\ frames' = [frames EXCEPT ![i].pc = "scan"]
                      /\ UNCHANGED <<quota, sent>>
                 ELSE /\ frames' = [frames EXCEPT
                                      ![i].pc = "wait",
                                      ![i].believed = limits[t],
                                      ![i].resp = answer(quota[t], now)]
                      /\ quota' = [quota EXCEPT ![t] = charged(@, now)]
                      /\ sent' = sent + 1
    /\ UNCHANGED <<limits, now>>
    /\ RaceFrame

\* the response is back: _update_limits, then the branches of _request
RaceReceive ==
    /\ \E i \in Callers :
          /\ frames[i].pc = "wait"
          /\ LET t == frames[i].token
                 st == frames[i].resp.status
                 h == frames[i].resp.h
                 counter == frames[i].counter + 1
             IN  /\ limits' = store_window(limits, t, h)
                 /\ frames' =
                      IF raises_not_ready(st, h)
                      THEN [frames EXCEPT ![i].pc = "scan",
                                          ![i].rejected = @ + 1]
                      ELSE IF st \in status_not_found(provider)
                      THEN [frames EXCEPT ![i].pc = "done",
                                          ![i].result = "RepoDoesNotExist"]
                      ELSE IF st \in status_internal_error
                      THEN IF budget_exceeded(counter)
                           THEN [frames EXCEPT
                                   ![i].pc = "done",
                                   ![i].result = "Timeout: VCS is down"]
                           ELSE [frames EXCEPT
                                   ![i].pc = "sleep",
                                   ![i].counter = counter,
                                   ![i].wake =
                                      now + sleep_internal_error(counter)]
                      ELSE IF st \in status_too_many_requests(provider)
                      THEN IF budget_exceeded(counter)
                           THEN [frames EXCEPT
                                   ![i].pc = "done",
                                   ![i].result = "Timeout: Too many requests"]
                           ELSE [frames EXCEPT
                                   ![i].pc = "sleep",
                                   ![i].counter = counter,
                                   ![i].wake =
                                      now + sleep_too_many_requests(counter)]
                      ELSE IF raise_for_status(st)
                      THEN [frames EXCEPT ![i].pc = "done",
                                          ![i].result = "HTTPError"]
                      ELSE [frames EXCEPT ![i].pc = "done",
                                          ![i].result = "ok"]
    /\ UNCHANGED <<quota, now, sent>>
    /\ RaceFrame

\* time.sleep returns
RaceWake ==
    /\ \E i \in Callers :
          /\ frames[i].pc = "sleep"
          /\ frames[i].wake <= now
          /\ frames' = [frames EXCEPT ![i].pc = "scan"]
    /\ UNCHANGED <<limits, quota, now, sent>>
    /\ RaceFrame

\* time passes while a caller sleeps
RaceTick ==
    /\ \E i \in Callers : frames[i].pc = "sleep" /\ frames[i].wake > now
    /\ now' = now + 1
    /\ UNCHANGED <<limits, quota, frames, sent>>
    /\ RaceFrame

\* a GitHub or GitLab client with two credentials; the provider's windows
\* are open, with two, one or no request left, and the client has stored
\* them or has not seen them yet
InitRace ==
    /\ provider \in {"github", "gitlab"}
    /\ python = 3
    /\ kind = "_request"
    /\ hdrs = 0
    /\ budget = 0
    /\ server = <<>>
    /\ page = None
    /\ cursor = None
    /\ now = StartTime
    /\ quota \in [1..2 -> [remaining : 0..WindowSize,
                           reset : {StartTime + ResetAhead}]]
    /\ limits \in {ls \in [1..2 -> {NoWindow, quota[1], quota[2]}] :
                      \A t \in 1..2 : ls[t] \in {NoWindow, quota[t]}}
    /\ search = [t \in 1..2 |-> NoWindow]
    /\ secrets = [t \in 1..2 |-> t]
    /\ made = 2
    /\ headers = pool_headers(secrets)
    /\ InitCall
    /\ frames = [i \in Callers |->
                   [pc |-> "scan", token |-> None, resp |-> NoResponse,
                    rem |-> [t \in 1..2 |-> None],
                    believed |-> NoWindow, wake |-> 0, counter |-> 0,
                    rejected |-> 0, result |-> "none"]]

NextRace ==
    \/ RacePeek
    \/ RaceScan
    \/ RaceSend
    \/ RaceReceive
    \/ RaceWake
    \/ RaceTick

\* every thread keeps running
SpecRace == InitRace /\ [][NextRace]_vars /\ WF_vars(NextRace)

\* a window changes only when a response is taken in, and becomes the
\* window of that one response
C38_Step ==
    \A t \in DOMAIN limits :
       limits'[t] # limits[t] =>
          \E i \in DOMAIN frames :
             /\ frames[i].pc = "wait"
             /\ frames[i].token = t
             /\ limits'[t] = frames[i].resp.h

\* no caller fails, and a caller that sleeps sleeps for a reset that the
\* stored windows announce
C38_NoFailure ==
    \A i \in DOMAIN frames :
       /\ frames[i].result \in {"none", "ok"}
       /\ frames[i].counter = 0
       /\ frames[i].pc = "sleep" =>
             \E t \in Tokens : frames[i].wake <= limits[t].reset + 1

\* every caller gets its response
C38_AllDone ==
    \A i \in DOMAIN frames : frames[i].pc = "done" /\ frames[i].result = "ok"

\* C38: races on a shared credential are benign: under every interleaving
\* of two callers each stored window is the window of one single response
\* (the last one taken in), a request sent on a stale window is rejected by
\* the provider and the rejection is absorbed (the caller goes on with
\* another credential or waits for the reset); no caller fails and none
\* waits forever.
C38_BenignRace == [][C38_Step]_vars /\ []C38_NoFailure /\ <>C38_AllDone

\* a caller sent a request because the stored window said one request was
\* left, the other caller had used it, the provider rejected the request,
\* and the caller got its response all the same
C38_Witness ==
    \E i \in DOMAIN frames :
       /\ frames[i].rejected = 1
       /\ frames[i].believed.remaining = 1
       /\ frames[i].pc = "done"
       /\ frames[i].result = "ok"

=============================================================================
